---- MODULE Spec2Model ----
(***************************************************************************)
(* pydynox: the batch / transaction / update executors and the error       *)
(* classifier, as state machines over one client with one call in flight.  *)
(***************************************************************************)
EXTENDS Integers, Sequences, FiniteSets, TLC

(* ---------- program constants ---------- *)
BATCH_WRITE_MAX_ITEMS == 25
BATCH_MAX_RETRIES == 5
TRANSACTION_MAX_ITEMS == 100
BaseDelayMs == 50

(* ---------- bounds of the model ---------- *)
MaxOverflow == 5
MaxDels == 2
MaxTxOver == 1

VARIABLES pc, api, form, table, input, all_requests, chunkIdx, pending, retries,
          log, result, other

vars == <<pc, api, form, table, input, all_requests, chunkIdx, pending, retries,
          log, result, other>>

(* ---------- helpers ---------- *)
Forms == {"sync", "async"}
Tables == {"orders"}

(* ---------- errors.rs ---------- *)
NoText == "<none>"

PyErr(exc, text, subject, args) == [exc |-> exc, text |-> text, subject |-> subject, args |-> args]
NoErr == PyErr("<no error>", NoText, NoText, <<>>)

SdkError(kind, detail, code, message, args) ==
    [kind |-> kind, detail |-> detail, code |-> code, message |-> message, args |-> args]

DispatchFailure(d) == SdkError("DispatchFailure", d, NoText, NoText, <<>>)
TimeoutError == SdkError("TimeoutError", NoText, NoText, NoText, <<>>)
ConstructionFailure(text, args) == SdkError("ConstructionFailure", text, NoText, NoText, args)
ResponseError == SdkError("ResponseError", NoText, NoText, NoText, <<>>)
ServiceError(code, message) == SdkError("ServiceError", NoText, code, message, <<>>)

(* the exception classes the library creates: the base class and its subclasses *)
Taxonomy ==
    {"PydynoxException", "ResourceNotFoundException", "ResourceInUseException",
     "ValidationException", "ConditionalCheckFailedException", "TransactionCanceledException",
     "ProvisionedThroughputExceededException", "AccessDeniedException", "CredentialsException",
     "SerializationException", "ConnectionException", "EncryptionException", "S3Exception",
     "S3AttributeException"}

CredentialTexts == {"no credentials in chain", "Credentials provider failed", "NoCredentialsError"}

map_outer_sdk_error_noTimeoutArm(err, service) ==
    CASE err.kind = "DispatchFailure" ->
           IF err.detail = "timeout"
           THEN PyErr("ConnectionException", "Connection timed out to {}. Check your network or endpoint.", service, <<>>)
           ELSE IF err.detail = "io"
           THEN PyErr("ConnectionException", "Connection failed to {} (I/O error). Check if the endpoint is reachable.", service, <<>>)
           ELSE PyErr("ConnectionException", "Connection failed to {}. Check if the endpoint is reachable.", service, <<>>)
      [] err.kind = "ConstructionFailure" ->
           IF err.detail \in CredentialTexts
           THEN PyErr("CredentialsException", "No AWS credentials found.", NoText, <<>>)
           ELSE PyErr("PydynoxException", "Failed to build request: {}", err.detail, err.args)
      [] err.kind = "ResponseError" ->
           PyErr("PydynoxException", "Invalid response from {}: {:?}", service, <<>>)
      [] err.kind = "ServiceError" -> NoErr
      [] OTHER -> PyErr("PydynoxException", "Unknown error from {}: {:?}", service, <<>>)

map_outer_sdk_error(err, service) ==
    CASE err.kind = "DispatchFailure" ->
           IF err.detail = "timeout"
           THEN PyErr("ConnectionException", "Connection timed out to {}. Check your network or endpoint.", service, <<>>)
           ELSE IF err.detail = "io"
           THEN PyErr("ConnectionException", "Connection failed to {} (I/O error). Check if the endpoint is reachable.", service, <<>>)
           ELSE PyErr("ConnectionException", "Connection failed to {}. Check if the endpoint is reachable.", service, <<>>)
      [] err.kind = "TimeoutError" ->
           PyErr("ConnectionException", "Connection timed out to {}. Check your network or endpoint.", service, <<>>)
      [] err.kind = "ConstructionFailure" ->
           IF err.detail \in CredentialTexts
           THEN PyErr("CredentialsException", "No AWS credentials found.", NoText, <<>>)
           ELSE PyErr("PydynoxException", "Failed to build request: {}", err.detail, err.args)
      [] err.kind = "ResponseError" ->
           PyErr("PydynoxException", "Invalid response from {}: {:?}", service, <<>>)
      [] err.kind = "ServiceError" -> NoErr
      [] OTHER -> PyErr("PydynoxException", "Unknown error from {}: {:?}", service, <<>>)

CredentialCodes == {"UnrecognizedClientException", "InvalidAccessKeyId", "SignatureDoesNotMatch",
                    "ExpiredTokenException", "ExpiredToken"}
AccessCodes == {"AccessDeniedException", "AccessDenied"}
ThrottleCodes == {"ProvisionedThroughputExceededException", "LimitExceededException",
                  "RequestLimitExceeded", "Throttling", "ThrottlingException", "SlowDown",
                  "TooManyRequestsException"}

(* the codes every backend shares, and a service error for each *)
SharedCodes == CredentialCodes \cup AccessCodes \cup ThrottleCodes
SharedCodeErrors == { ServiceError(c, NoText) : c \in SharedCodes }

map_common_service_code(code, message, service) ==
    CASE code = NoText -> NoErr
      [] code = "UnrecognizedClientException" ->
           PyErr("CredentialsException", "Invalid AWS credentials. Check your access key and secret.", NoText, <<>>)
      [] code = "InvalidAccessKeyId" ->
           PyErr("CredentialsException", "Invalid AWS access key ID. Check your credentials.", NoText, <<>>)
      [] code = "SignatureDoesNotMatch" ->
           PyErr("CredentialsException", "AWS signature mismatch. Check your secret access key.", NoText, <<>>)
      [] code \in {"ExpiredTokenException", "ExpiredToken"} ->
           PyErr("CredentialsException", "AWS credentials have expired. Refresh your session token.", NoText, <<>>)
      [] code \in AccessCodes ->
           PyErr("AccessDeniedException", "Access denied to {}: {}", service, <<>>)
      [] code \in ThrottleCodes ->
           PyErr("ProvisionedThroughputExceededException",
                 "{} request rate too high. Try again with exponential backoff.", service, <<>>)
      [] OTHER -> NoErr

map_dynamodb_code(code, message, tbl) ==
    IF map_common_service_code(code, message, "DynamoDB") # NoErr
    THEN map_common_service_code(code, message, "DynamoDB")
    ELSE CASE code = "ResourceNotFoundException" ->
                IF tbl # NoText
                THEN PyErr("ResourceNotFoundException", "Table '{}' not found", tbl, <<>>)
                ELSE PyErr("ResourceNotFoundException", "Resource not found", NoText, <<>>)
           [] code = "ResourceInUseException" ->
                IF tbl # NoText
                THEN PyErr("ResourceInUseException", "Table '{}' already exists", tbl, <<>>)
                ELSE PyErr("ResourceInUseException", "Resource already in use", NoText, <<>>)
           [] code = "ValidationException" ->
                PyErr("ValidationException", IF message # NoText THEN message ELSE "<display>", NoText, <<>>)
           [] code = "ConditionalCheckFailedException" ->
                PyErr("ConditionalCheckFailedException", "The condition expression evaluated to false", NoText, <<>>)
           [] code = "TransactionCanceledException" ->
                PyErr("TransactionCanceledException",
                      IF message # NoText THEN message ELSE "Transaction was canceled", NoText, <<>>)
           [] code = "ItemCollectionSizeLimitExceededException" ->
                PyErr("ValidationException", "Item collection size limit exceeded", NoText, <<>>)
           [] OTHER ->
                PyErr("PydynoxException", IF message # NoText THEN message ELSE "<display>", NoText, <<>>)

map_sdk_error_noCodes(err, tbl) ==
    IF map_outer_sdk_error(err, "DynamoDB") # NoErr
    THEN map_outer_sdk_error(err, "DynamoDB")
    ELSE PyErr("PydynoxException", "Unexpected DynamoDB error: {:?}", NoText, <<>>)

map_sdk_error(err, tbl) ==
    IF map_outer_sdk_error(err, "DynamoDB") # NoErr
    THEN map_outer_sdk_error(err, "DynamoDB")
    ELSE map_dynamodb_code(err.code, err.message, tbl)

map_s3_error(err, bucket, key) ==
    IF map_outer_sdk_error(err, "S3") # NoErr THEN map_outer_sdk_error(err, "S3")
    ELSE IF map_common_service_code(err.code, err.message, "S3") # NoErr
    THEN map_common_service_code(err.code, err.message, "S3")
    ELSE CASE err.code = "NoSuchBucket" ->
                IF bucket # NoText
                THEN PyErr("ResourceNotFoundException", "S3 bucket '{}' not found", bucket, <<>>)
                ELSE PyErr("ResourceNotFoundException", "S3 bucket not found", NoText, <<>>)
           [] err.code \in {"NoSuchKey", "NotFound"} ->
                IF bucket # NoText /\ key # NoText
                THEN PyErr("ResourceNotFoundException", "S3 object '{}/{}' not found", bucket, <<key>>)
                ELSE IF key # NoText
                THEN PyErr("ResourceNotFoundException", "S3 object '{}' not found", key, <<>>)
                ELSE PyErr("ResourceNotFoundException", "S3 object not found", NoText, <<>>)
           [] err.code \in {"BucketAlreadyExists", "BucketAlreadyOwnedByYou"} ->
                IF bucket # NoText
                THEN PyErr("ResourceInUseException", "S3 bucket '{}' already exists", bucket, <<>>)
                ELSE PyErr("ResourceInUseException", "S3 bucket already exists", NoText, <<>>)
           [] err.code = "InvalidBucketName" ->
                PyErr("ValidationException", "Invalid S3 bucket name", NoText, <<>>)
           [] err.code \in {"EntityTooLarge", "MaxSizeExceeded"} ->
                PyErr("ValidationException", "S3 object too large", NoText, <<>>)
           [] err.code = "InvalidRange" ->
                PyErr("ValidationException", "Invalid byte range for S3 object", NoText, <<>>)
           [] OTHER ->
                PyErr("S3Exception", "S3 operation failed: {}",
                      IF err.message # NoText THEN err.message ELSE "<display>", <<>>)

KmsKeyErrors ==
    [NotFoundException |-> "KMS key not found. Check the key ID or alias.",
     DisabledException |-> "KMS key is disabled.",
     InvalidKeyUsageException |-> "KMS key cannot be used for this operation.",
     KeyUnavailableException |-> "KMS key is not available. Try again later.",
     InvalidCiphertextException |-> "Invalid ciphertext. Data may be corrupted.",
     IncorrectKeyException |-> "Wrong KMS key used for decryption.",
     InvalidGrantTokenException |-> "Invalid grant token."]

map_kms_error_specificFirst(err) ==
    IF map_outer_sdk_error(err, "KMS") # NoErr THEN map_outer_sdk_error(err, "KMS")
    ELSE IF err.code \in DOMAIN KmsKeyErrors
    THEN PyErr("EncryptionException", KmsKeyErrors[err.code], NoText, <<>>)
    ELSE PyErr("EncryptionException", "KMS operation failed: {}",
               IF err.message # NoText THEN err.message ELSE "<display>", <<>>)

map_kms_error(err) ==
    IF map_outer_sdk_error(err, "KMS") # NoErr THEN map_outer_sdk_error(err, "KMS")
    ELSE IF map_common_service_code(err.code, err.message, "KMS") # NoErr
    THEN map_common_service_code(err.code, err.message, "KMS")
    ELSE IF err.code \in DOMAIN KmsKeyErrors
    THEN PyErr("EncryptionException", KmsKeyErrors[err.code], NoText, <<>>)
    ELSE PyErr("EncryptionException", "KMS operation failed: {}",
               IF err.message # NoText THEN err.message ELSE "<display>", <<>>)

(* ---------- conversions.rs ---------- *)
(* decimal text is a sequence of one-character strings; a host integer has arbitrary
   magnitude and is kept as sign and decimal digits without leading zeros *)
DigitChars == <<"0", "1", "2", "3", "4", "5", "6", "7", "8", "9">>
IsDigit(c) == \E d \in 1..10 : DigitChars[d] = c
DigitVal(c) == (CHOOSE d \in 1..10 : DigitChars[d] = c) - 1

RECURSIVE NatDigits(_)
NatDigits(n) == IF n < 10 THEN <<n>> ELSE Append(NatDigits(n \div 10), n % 10)

PyNone == [ty |-> "NoneType"]
PyStr(s) == [ty |-> "str", v |-> s]
PyBool(b) == [ty |-> "bool", b |-> b]
PyInt(neg, digits) == [ty |-> "int", neg |-> neg, digits |-> digits]
(* a host float is identified by its shortest decimal form, the one str() prints:
   ip.fp when exp = 0, and d.fp times ten to the exp otherwise *)
PyFloatExp(neg, ip, fp, exp) == [ty |-> "float", neg |-> neg, ip |-> ip, fp |-> fp, exp |-> exp]
PyFloat(neg, ip, fp) == PyFloatExp(neg, ip, fp, 0)
PyInf(neg) == [ty |-> "float", neg |-> neg, inf |-> TRUE]
PyBytes(bs) == [ty |-> "bytes", bytes |-> bs]
PyList(items) == [ty |-> "list", items |-> items]
PyDict(pairs) == [ty |-> "dict", pairs |-> pairs]
PySet(elems) == [ty |-> "set", elems |-> elems]
PyFrozenSet(elems) == [ty |-> "frozenset", elems |-> elems]
PyObject == [ty |-> "object"]
PyNat(n) == PyInt(FALSE, NatDigits(n))

AvS(s) == [t |-> "S", s |-> s]
AvN(text) == [t |-> "N", n |-> text]
AvBool(b) == [t |-> "BOOL", b |-> b]

Converted(v) == [ok |-> TRUE, v |-> v, err |-> NoErr]
ConvError(e) == [ok |-> FALSE, v |-> <<>>, err |-> e]

DigitText(ds) == [i \in 1..Len(ds) |-> DigitChars[ds[i] + 1]]

(* str() of a host object that passes the int-or-float test: bool is a subclass of int
   and prints as True / False; a float prints an exponent of at least two digits *)
PyStrOf(obj) ==
    CASE obj.ty = "bool" -> IF obj.b THEN <<"T", "r", "u", "e">> ELSE <<"F", "a", "l", "s", "e">>
      [] obj.ty = "int" -> (IF obj.neg THEN <<"-">> ELSE <<>>) \o DigitText(obj.digits)
      [] obj.ty = "float" /\ "inf" \in DOMAIN obj ->
           (IF obj.neg THEN <<"-">> ELSE <<>>) \o <<"i", "n", "f">>
      [] OTHER ->
           LET sign == IF obj.neg THEN <<"-">> ELSE <<>>
               mag == IF obj.exp < 0 THEN 0 - obj.exp ELSE obj.exp
               expDigits == IF mag < 10 THEN <<0>> \o NatDigits(mag) ELSE NatDigits(mag)
           IN IF obj.exp = 0
              THEN sign \o DigitText(obj.ip) \o <<".">> \o DigitText(obj.fp)
              ELSE sign \o DigitText(obj.ip)
                   \o (IF obj.fp = <<0>> THEN <<>> ELSE <<".">> \o DigitText(obj.fp))
                   \o <<"e", IF obj.exp < 0 THEN "-" ELSE "+">> \o DigitText(expDigits)

(* the casts of the encoder: cast::<PyInt>() succeeds on a bool *)
IsPyInt(obj) == obj.ty \in {"int", "bool"}
IsPyFloat(obj) == obj.ty = "float"

(* Python equality of two host values that are numbers, strings or byte sequences, as
   PySet.add decides membership with: True == 1 == 1.0 and 0 == 0.0 == -0.0 *)
AsNumber(x) ==
    IF x.ty = "bool" THEN PyInt(FALSE, IF x.b THEN <<1>> ELSE <<0>>)
    ELSE IF x.ty = "float" /\ "inf" \notin DOMAIN x /\ x.exp = 0 /\ x.fp = <<0>>
    THEN PyInt(x.neg /\ x.ip # <<0>>, x.ip)
    ELSE x

ElemEq(a, b) ==
    IF a.ty \in {"bool", "int", "float"} /\ b.ty \in {"bool", "int", "float"}
    THEN IF AsNumber(a).ty # AsNumber(b).ty THEN FALSE
         ELSE IF AsNumber(a).ty = "int"
         THEN AsNumber(a).neg = AsNumber(b).neg /\ AsNumber(a).digits = AsNumber(b).digits
         ELSE IF ("inf" \in DOMAIN a) # ("inf" \in DOMAIN b) THEN FALSE
         ELSE IF "inf" \in DOMAIN a THEN a.neg = b.neg
         ELSE a.neg = b.neg /\ a.ip = b.ip /\ a.fp = b.fp /\ a.exp = b.exp
    ELSE IF a.ty # b.ty THEN FALSE
    ELSE IF a.ty = "str" THEN a.v = b.v
    ELSE IF a.ty = "bytes" THEN a.bytes = b.bytes
    ELSE a.ty = "NoneType"

(* the elements left after PySet.add of each in turn: an element equal to an earlier one
   is not added *)
AddAll(elems) ==
    LET kept == SelectSeq([i \in 1..Len(elems) |-> [k |-> i, e |-> elems[i]]],
                          LAMBDA r : \A j \in 1..(r.k - 1) : ~ElemEq(elems[j], r.e))
    IN [i \in 1..Len(kept) |-> kept[i].e]

(* a dict is the sequence of its (key, value) pairs in iteration order; the HashMap
   built from it is a function on the keys, a later insert replacing an earlier one *)
EmptyMap == [x \in {} |-> TRUE]
FromPairs(pairs) ==
    [k \in {pairs[i][1] : i \in 1..Len(pairs)} |->
        pairs[CHOOSE i \in 1..Len(pairs) :
                 pairs[i][1] = k /\ \A j \in (i + 1)..Len(pairs) : pairs[j][1] # k][2]]

(* a loop over a sequence of conversions that returns at the first failure
   (collect::<PyResult<Vec<_>>>()? and the for loops with ?): the first failing result,
   or the values, wrapped the way the caller wraps them *)
Collect(results, ty, keys) ==
    LET vals == [i \in 1..Len(results) |-> results[i].v]
        entries == [i \in 1..Len(results) |-> <<keys[i], results[i].v>>]
    IN IF \E i \in 1..Len(results) : ~results[i].ok
       THEN ConvError(results[CHOOSE i \in 1..Len(results) :
                                 ~results[i].ok /\ \A j \in 1..(i - 1) : results[j].ok].err)
       ELSE Converted(CASE ty = "L" -> [t |-> "L", l |-> vals]
                        [] ty = "M" -> [t |-> "M", m |-> FromPairs(entries)]
                        [] ty = "map" -> FromPairs(entries)
                        [] ty = "list" -> PyList(vals)
                        [] ty = "set" -> PySet(AddAll(vals))
                        [] OTHER -> vals)

(* the same over the values of a HashMap, whose iteration order is not fixed *)
CollectMap(results, ty) ==
    LET bad == {k \in DOMAIN results : ~results[k].ok}
        vals == [k \in DOMAIN results |-> results[k].v]
    IN IF bad # {} THEN ConvError(results[CHOOSE k \in bad : TRUE].err)
       ELSE Converted(IF ty = "dict" THEN [ty |-> "dict", map |-> vals] ELSE vals)

convert_set_direct(items) ==
    IF items = <<>>
    THEN ConvError(PyErr("ValueError", "DynamoDB does not support empty sets", NoText, <<>>))
    ELSE IF items[1].ty = "str"
    THEN IF \E i \in 1..Len(items) : items[i].ty # "str"
         THEN ConvError(PyErr("TypeError", "String set must contain only strings", NoText, <<>>))
         ELSE Converted([t |-> "SS", ss |-> [i \in 1..Len(items) |-> items[i].v]])
    ELSE IF IsPyInt(items[1]) \/ IsPyFloat(items[1])
    THEN IF \E i \in 1..Len(items) : ~(IsPyInt(items[i]) \/ IsPyFloat(items[i]))
         THEN ConvError(PyErr("TypeError", "Number set must contain only numbers", NoText, <<>>))
         ELSE Converted([t |-> "NS", ns |-> [i \in 1..Len(items) |-> PyStrOf(items[i])]])
    ELSE IF items[1].ty = "bytes"
    THEN IF \E i \in 1..Len(items) : items[i].ty # "bytes"
         THEN ConvError(PyErr("TypeError", "Binary set must contain only bytes", NoText, <<>>))
         ELSE Converted([t |-> "BS", bs |-> [i \in 1..Len(items) |-> items[i].bytes]])
    ELSE ConvError(PyErr("TypeError", "Unsupported set element type: {}", items[1].ty, <<>>))

(* the if / else-if cascade of the encoder, in the order of the source *)
RECURSIVE py_to_attribute_value_direct(_)
py_to_attribute_value_direct(obj) ==
    IF obj.ty = "NoneType" THEN Converted([t |-> "NULL"])
    ELSE IF obj.ty = "str" THEN Converted(AvS(obj.v))
    ELSE IF obj.ty = "bool" THEN Converted(AvBool(obj.b))
    ELSE IF IsPyInt(obj) \/ IsPyFloat(obj) THEN Converted(AvN(PyStrOf(obj)))
    ELSE IF obj.ty = "bytes" THEN Converted([t |-> "B", bytes |-> obj.bytes])
    ELSE IF obj.ty = "set" THEN convert_set_direct(obj.elems)
    ELSE IF obj.ty = "frozenset" THEN convert_set_direct(obj.elems)
    ELSE IF obj.ty = "list"
    THEN Collect([i \in 1..Len(obj.items) |-> py_to_attribute_value_direct(obj.items[i])],
                 "L", <<>>)
    ELSE IF obj.ty = "dict"
    THEN Collect([i \in 1..Len(obj.pairs) |-> py_to_attribute_value_direct(obj.pairs[i][2])],
                 "M", [i \in 1..Len(obj.pairs) |-> obj.pairs[i][1]])
    ELSE ConvError(PyErr("TypeError", "Unsupported type for DynamoDB: {}", obj.ty, <<>>))

py_dict_to_attribute_values(dict) ==
    Collect([i \in 1..Len(dict) |-> py_to_attribute_value_direct(dict[i][2])],
            "map", [i \in 1..Len(dict) |-> dict[i][1]])

StripSign(text) == IF text # <<>> /\ text[1] \in {"+", "-"} THEN Tail(text) ELSE text

RECURSIVE StripZeros(_)
StripZeros(ds) == IF Len(ds) > 1 /\ ds[1] = 0 THEN StripZeros(Tail(ds)) ELSE ds

I64MaxDigits == <<9, 2, 2, 3, 3, 7, 2, 0, 3, 6, 8, 5, 4, 7, 7, 5, 8, 0, 7>>

(* a <= b for digit sequences without leading zeros *)
RECURSIVE LexLeq(_, _)
LexLeq(a, b) ==
    IF a = <<>> THEN TRUE
    ELSE IF a[1] # b[1] THEN a[1] < b[1]
    ELSE LexLeq(Tail(a), Tail(b))

InvalidNumber == PyErr("ValueError", "Invalid number: {}", NoText, <<>>)

(* n.parse::<i64>() *)
ParseI64(text) ==
    LET body == StripSign(text)
        neg == text # <<>> /\ text[1] = "-"
    IN IF body = <<>> \/ \E i \in 1..Len(body) : ~IsDigit(body[i])
       THEN ConvError(InvalidNumber)
       ELSE LET ds == StripZeros([i \in 1..Len(body) |-> DigitVal(body[i])])
                limit == IF neg THEN [I64MaxDigits EXCEPT ![19] = 8] ELSE I64MaxDigits
            IN IF Len(ds) > 19 \/ (Len(ds) = 19 /\ ~LexLeq(ds, limit))
               THEN ConvError(InvalidNumber)
               ELSE Converted(PyInt(neg /\ ds # <<0>>, ds))

RECURSIVE StripTrailingZeros(_)
StripTrailingZeros(ds) ==
    IF Len(ds) > 1 /\ ds[Len(ds)] = 0 THEN StripTrailingZeros(SubSeq(ds, 1, Len(ds) - 1)) ELSE ds

RECURSIVE DigitsToNat(_)
DigitsToNat(ds) == IF ds = <<>> THEN 0 ELSE 10 * DigitsToNat(SubSeq(ds, 1, Len(ds) - 1)) + ds[Len(ds)]

(* the double whose decimal value is 0.d1 d2 ... (the digits sig, no zero at either
   end) times ten to the pt, in the form str() prints it: plain decimals for
   1e-4 <= |x| < 1e16, an exponent otherwise; beyond the range of a double (decimal
   exponents -324 .. 308) the value is zero or infinity *)
FloatRepr(neg, sig, pt) ==
    IF pt - 1 < 0 - 324 THEN PyFloat(neg, <<0>>, <<0>>)
    ELSE IF pt - 1 > 308 THEN PyInf(neg)
    ELSE IF pt - 1 < 0 - 4 \/ pt - 1 >= 16
    THEN PyFloatExp(neg, <<sig[1]>>, IF Len(sig) = 1 THEN <<0>> ELSE Tail(sig), pt - 1)
    ELSE IF pt <= 0 THEN PyFloat(neg, <<0>>, [i \in 1..(0 - pt) |-> 0] \o sig)
    ELSE IF pt >= Len(sig) THEN PyFloat(neg, sig \o [i \in 1..(pt - Len(sig)) |-> 0], <<0>>)
    ELSE PyFloat(neg, SubSeq(sig, 1, pt), SubSeq(sig, pt + 1, Len(sig)))

FloatOf(neg, digits, point) ==
    LET lz == Cardinality({i \in 1..Len(digits) : \A j \in 1..i : digits[j] = 0})
    IN IF lz = Len(digits) THEN PyFloat(neg, <<0>>, <<0>>)
       ELSE FloatRepr(neg, StripTrailingZeros(SubSeq(digits, lz + 1, Len(digits))), point - lz)

(* the index of the first character of text that is one of chars, Len(text) + 1 if none *)
FirstIndex(text, chars) ==
    LET hits == {i \in 1..Len(text) : text[i] \in chars}
    IN IF hits = {} THEN Len(text) + 1 ELSE CHOOSE i \in hits : \A j \in hits : i <= j

(* mantissa digits [. digits], then the exponent's digits if the text has an exponent *)
ParseFloatParts(mant, expo, expNeg, hasExp, neg) ==
    LET digits == SelectSeq(mant, IsDigit)
        point == Len(SelectSeq(SubSeq(mant, 1, FirstIndex(mant, {"."}) - 1), IsDigit))
        mag == StripZeros([i \in 1..Len(expo) |-> DigitVal(expo[i])])
        shift == IF ~hasExp THEN 0
                 ELSE IF expNeg THEN 0 - (IF Len(mag) > 4 THEN 9999 ELSE DigitsToNat(mag))
                 ELSE IF Len(mag) > 4 THEN 9999 ELSE DigitsToNat(mag)
    IN IF \/ \E i \in 1..Len(mant) : ~(IsDigit(mant[i]) \/ mant[i] = ".")
          \/ Len(mant) - Len(digits) > 1
          \/ digits = <<>>
          \/ (hasExp /\ (expo = <<>> \/ \E i \in 1..Len(expo) : ~IsDigit(expo[i])))
       THEN ConvError(InvalidNumber)
       ELSE Converted(FloatOf(neg, [i \in 1..Len(digits) |-> DigitVal(digits[i])], point + shift))

(* n.parse::<f64>() on decimal text: [sign] digits [. digits] [(e|E) [sign] digits] *)
ParseF64(text) ==
    LET body == StripSign(text)
        e == FirstIndex(body, {"e", "E"})
    IN ParseFloatParts(SubSeq(body, 1, e - 1), StripSign(SubSeq(body, e + 1, Len(body))),
                       e < Len(body) /\ body[e + 1] = "-", e <= Len(body),
                       text # <<>> /\ text[1] = "-")

(* the number branch, used for N and for each element of NS *)
ParseNumber(n) ==
    IF \E i \in 1..Len(n) : n[i] \in {".", "e", "E"} THEN ParseF64(n) ELSE ParseI64(n)

RECURSIVE attribute_value_to_py_direct(_)
attribute_value_to_py_direct(value) ==
    CASE value.t = "S" -> Converted(PyStr(value.s))
      [] value.t = "N" -> ParseNumber(value.n)
      [] value.t = "BOOL" -> Converted(PyBool(value.b))
      [] value.t = "NULL" -> Converted(PyNone)
      [] value.t = "B" -> Converted(PyBytes(value.bytes))
      [] value.t = "L" ->
           Collect([i \in 1..Len(value.l) |-> attribute_value_to_py_direct(value.l[i])],
                   "list", <<>>)
      [] value.t = "M" ->
           CollectMap([k \in DOMAIN value.m |-> attribute_value_to_py_direct(value.m[k])], "dict")
      [] value.t = "SS" ->
           Converted(PySet(AddAll([i \in 1..Len(value.ss) |-> PyStr(value.ss[i])])))
      [] value.t = "NS" ->
           Collect([i \in 1..Len(value.ns) |-> ParseNumber(value.ns[i])], "set", <<>>)
      [] value.t = "BS" ->
           Converted(PySet(AddAll([i \in 1..Len(value.bs) |-> PyBytes(value.bs[i])])))
      [] OTHER -> ConvError(PyErr("ValueError", "Unknown DynamoDB AttributeValue type", NoText, <<>>))

attribute_values_to_py_dict(item) ==
    CollectMap([k \in DOMAIN item |-> attribute_value_to_py_direct(item[k])], "map")

(* ---------- the backend's answers (the environment) ---------- *)
BackendErrors ==
    { DispatchFailure("timeout"), DispatchFailure("io"), TimeoutError, ResponseError,
      ConstructionFailure("NoCredentialsError", <<>>),
      ServiceError("ResourceNotFoundException", NoText),
      ServiceError("ValidationException", "msg"),
      ServiceError("ThrottlingException", NoText),
      ServiceError("TransactionCanceledException", "msg"),
      ServiceError("InternalServerError", NoText) }

(* what the response's unprocessed_items holds: nothing at all, a map without
   the target table, or a map with a list for the target table *)
NoSdkError == SdkError(NoText, NoText, NoText, NoText, <<>>)
BatchOutput(where, items) == [ok |-> TRUE, where |-> where, items |-> items, err |-> NoSdkError]

BatchAnswers(p) ==
    { BatchOutput("None", <<>>), BatchOutput("OtherTable", <<>>), BatchOutput("Table", <<>>) }
    \cup { BatchOutput("Table", SubSeq(p, Len(p) - m + 1, Len(p))) :
             m \in {m \in {1, 3, Len(p)} : m >= 1 /\ m <= Len(p)} }
    \cup { [ok |-> FALSE, where |-> NoText, items |-> <<>>, err |-> e] : e \in BackendErrors }

(* ---------- the log of what the client did ---------- *)
CallEv(name, ci, items) == [ev |-> "call", name |-> name, chunk |-> ci, items |-> items, ms |-> 0]
RespEv(ok, ci, items) ==
    [ev |-> IF ok THEN "ok" ELSE "err", name |-> NoText, chunk |-> ci, items |-> items, ms |-> 0]

Calls(lg) == SelectSeq(lg, LAMBDA e : e.ev = "call")

Ok == [status |-> "ok", err |-> NoErr, value |-> <<>>]
OkValue(v) == [status |-> "ok", err |-> NoErr, value |-> v]
Err(e) == [status |-> "err", err |-> e, value |-> <<>>]

(* ---------- batch_operations/write.rs ---------- *)
(* one element of put_items or delete_keys: item.cast::<PyDict>()?, then
   py_dict_to_attribute_values(py, item_dict)?; the write request built from it is
   identified by its kind and its position in its list *)
WriteRequestOf_unchecked(op, i, obj) == Converted([op |-> op, id |-> i])

WriteRequestOf(op, i, obj) ==
    IF obj.ty # "dict"
    THEN ConvError(PyErr("TypeError", "object cannot be cast as 'dict'", NoText, <<>>))
    ELSE IF ~py_dict_to_attribute_values(obj.pairs).ok
    THEN py_dict_to_attribute_values(obj.pairs)
    ELSE Converted([op |-> op, id |-> i])

(* the two conversion loops, puts first, and the merged list: the first element that
   fails ends the call before any request is sent *)
prepare_batch_write(put_items, delete_keys) ==
    Collect([i \in 1..(Len(put_items) + Len(delete_keys)) |->
               IF i <= Len(put_items) THEN WriteRequestOf("put", i, put_items[i])
               ELSE WriteRequestOf("delete", i - Len(put_items), delete_keys[i - Len(put_items)])],
            "seq", <<>>)

Chunk_overlap(reqs, k) ==
    SubSeq(reqs, (k - 1) * BATCH_WRITE_MAX_ITEMS + 1,
           IF k * BATCH_WRITE_MAX_ITEMS + 1 < Len(reqs)
           THEN k * BATCH_WRITE_MAX_ITEMS + 1 ELSE Len(reqs))

Chunk(reqs, k) ==
    SubSeq(reqs, (k - 1) * BATCH_WRITE_MAX_ITEMS + 1,
           IF k * BATCH_WRITE_MAX_ITEMS < Len(reqs) THEN k * BATCH_WRITE_MAX_ITEMS ELSE Len(reqs))

BackoffDelay_fromZero(r) == BaseDelayMs * 2^(r - 1)

BackoffDelay(r) == BaseDelayMs * 2^r

Classify_ignoreUnprocessed(ans) == IF ans.ok THEN "clear" ELSE "abort"

Classify_retryOnError(ans) ==
    IF ans.ok /\ ~(ans.where = "Table" /\ ans.items # <<>>) THEN "clear" ELSE "retry"

(* the match on the result of one BatchWriteItem call *)
Classify(ans) ==
    IF ans.ok
    THEN IF ans.where = "Table" /\ ans.items # <<>> THEN "retry" ELSE "clear"
    ELSE "abort"

NextPending_keepAll(p, items) == p

NextPending(p, items) == items

ExhaustedText == "Failed to process {} items after {} retries"

ExhaustedError_swapped(f, p, tbl) ==
    IF f = "sync"
    THEN PyErr("RuntimeError", ExhaustedText, NoText, <<BATCH_MAX_RETRIES, Len(p)>>)
    ELSE map_sdk_error(ConstructionFailure(ExhaustedText, <<BATCH_MAX_RETRIES, Len(p)>>), tbl)

ExhaustedError(f, p, tbl) ==
    IF f = "sync"
    THEN PyErr("RuntimeError", ExhaustedText, NoText, <<Len(p), BATCH_MAX_RETRIES>>)
    ELSE map_sdk_error(ConstructionFailure(ExhaustedText, <<Len(p), BATCH_MAX_RETRIES>>), tbl)

LoopHeadFrom_noRetryLimit(lg, ci, p, r) ==
    IF p # <<>>
    THEN /\ pc' = "bw_call"
         /\ chunkIdx' = ci /\ pending' = p /\ retries' = r
         /\ log' = Append(lg, CallEv("BatchWriteItem", ci, p))
         /\ UNCHANGED result
    ELSE IF p # <<>>
    THEN /\ pc' = "done"
         /\ chunkIdx' = ci /\ pending' = p /\ retries' = r
         /\ result' = Err(ExhaustedError(form, p, table))
         /\ log' = lg
    ELSE IF ci * BATCH_WRITE_MAX_ITEMS < Len(all_requests)
    THEN /\ pc' = "bw_call"
         /\ chunkIdx' = ci + 1 /\ pending' = Chunk(all_requests, ci + 1) /\ retries' = 0
         /\ log' = Append(lg, CallEv("BatchWriteItem", ci + 1, Chunk(all_requests, ci + 1)))
         /\ UNCHANGED result
    ELSE /\ pc' = "done"
         /\ chunkIdx' = ci /\ pending' = p /\ retries' = r
         /\ result' = Ok
         /\ log' = lg

LoopHeadFrom_keepRetries(lg, ci, p, r) ==
    IF p # <<>> /\ r < BATCH_MAX_RETRIES
    THEN /\ pc' = "bw_call"
         /\ chunkIdx' = ci /\ pending' = p /\ retries' = r
         /\ log' = Append(lg, CallEv("BatchWriteItem", ci, p))
         /\ UNCHANGED result
    ELSE IF p # <<>>
    THEN /\ pc' = "done"
         /\ chunkIdx' = ci /\ pending' = p /\ retries' = r
         /\ result' = Err(ExhaustedError(form, p, table))
         /\ log' = lg
    ELSE IF ci * BATCH_WRITE_MAX_ITEMS < Len(all_requests)
    THEN /\ pc' = "bw_call"
         /\ chunkIdx' = ci + 1 /\ pending' = Chunk(all_requests, ci + 1) /\ retries' = r
         /\ log' = Append(lg, CallEv("BatchWriteItem", ci + 1, Chunk(all_requests, ci + 1)))
         /\ UNCHANGED result
    ELSE /\ pc' = "done"
         /\ chunkIdx' = ci /\ pending' = p /\ retries' = r
         /\ result' = Ok
         /\ log' = lg

(* control reaches the head of the while loop of chunk ci with locals p, r,
   and runs on to the next backend call or to the return *)
LoopHeadFrom(lg, ci, p, r) ==
    IF p # <<>> /\ r < BATCH_MAX_RETRIES
    THEN /\ pc' = "bw_call"
         /\ chunkIdx' = ci /\ pending' = p /\ retries' = r
         /\ log' = Append(lg, CallEv("BatchWriteItem", ci, p))
         /\ UNCHANGED result
    ELSE IF p # <<>>
    THEN /\ pc' = "done"
         /\ chunkIdx' = ci /\ pending' = p /\ retries' = r
         /\ result' = Err(ExhaustedError(form, p, table))
         /\ log' = lg
    ELSE IF ci * BATCH_WRITE_MAX_ITEMS < Len(all_requests)
    THEN /\ pc' = "bw_call"
         /\ chunkIdx' = ci + 1 /\ pending' = Chunk(all_requests, ci + 1) /\ retries' = 0
         /\ log' = Append(lg, CallEv("BatchWriteItem", ci + 1, Chunk(all_requests, ci + 1)))
         /\ UNCHANGED result
    ELSE /\ pc' = "done"
         /\ chunkIdx' = ci /\ pending' = p /\ retries' = r
         /\ result' = Ok
         /\ log' = lg

BatchWriteStart(f, tbl, put_items, delete_keys) ==
    /\ pc = "idle"
    /\ api' = "batch_write" /\ form' = f /\ table' = tbl
    /\ input' = [puts |-> Len(put_items), dels |-> Len(delete_keys),
                 items |-> put_items \o delete_keys]
    /\ all_requests' = prepare_batch_write(put_items, delete_keys).v
    /\ IF ~prepare_batch_write(put_items, delete_keys).ok
       THEN /\ pc' = "done" /\ result' = Err(prepare_batch_write(put_items, delete_keys).err)
            /\ UNCHANGED <<chunkIdx, pending, retries, log>>
       ELSE IF all_requests' = <<>>
       THEN /\ pc' = "done" /\ result' = Ok
            /\ UNCHANGED <<chunkIdx, pending, retries, log>>
       ELSE /\ pc' = "bw_call"
            /\ chunkIdx' = 1 /\ pending' = Chunk(all_requests', 1) /\ retries' = 0
            /\ log' = Append(log, CallEv("BatchWriteItem", 1, Chunk(all_requests', 1)))
            /\ UNCHANGED result

(* the key of item i *)
KeyDict(i) == << <<"id", PyNat(i)>> >>

(* put_items and delete_keys: dicts, but for the element at position at of the merged
   list (none if at = 0), which is obj *)
BatchItems(n, off, at, obj) ==
    [i \in 1..n |-> IF off + i = at THEN obj ELSE PyDict(KeyDict(i))]

(* an element that is no mapping, one with a value of an unsupported type, one with an
   empty set *)
BadObjects == {PyObject, PyDict(<< <<"id", PyObject>> >>), PyDict(<< <<"id", PySet(<<>>)>> >>)}

BatchWriteRecv(ans) ==
    /\ pc = "bw_call"
    /\ UNCHANGED <<api, form, table, input, all_requests>>
    /\ CASE Classify(ans) = "retry" ->
              /\ pending' = NextPending(pending, ans.items)
              /\ retries' = retries + 1
              /\ log' = log \o <<RespEv(ans.ok, chunkIdx, ans.items),
                                 [ev |-> "sleep", name |-> NoText, chunk |-> chunkIdx,
                                  items |-> <<>>, ms |-> BackoffDelay(retries + 1)]>>
              /\ pc' = "bw_sleep"
              /\ UNCHANGED <<chunkIdx, result>>
         [] Classify(ans) = "clear" ->
              LoopHeadFrom(Append(log, RespEv(ans.ok, chunkIdx,
                                              IF ans.where = "Table" THEN ans.items ELSE <<>>)),
                           chunkIdx, <<>>, retries)
         [] OTHER ->
              /\ pc' = "done"
              /\ result' = Err(map_sdk_error(ans.err, table))
              /\ log' = Append(log, RespEv(ans.ok, chunkIdx, <<ans.err>>))
              /\ UNCHANGED <<chunkIdx, pending, retries>>

BatchWriteWake ==
    /\ pc = "bw_sleep"
    /\ UNCHANGED <<api, form, table, input, all_requests>>
    /\ LoopHeadFrom(log, chunkIdx, pending, retries)

(* ---------- transaction_operations.rs ---------- *)
ValueErr(text) == PyErr("ValueError", text, NoText, <<>>)

SizeLimitExceeded_offByOne(n) == n >= TRANSACTION_MAX_ITEMS

SizeLimitExceeded(n) == n > TRANSACTION_MAX_ITEMS

(* the shape the builders share: the key (or item) field is required and converted,
   then the expression the kind cannot do without is required *)
Built(kind, e, field, conv, expr) ==
    IF field \notin e.has
    THEN ConvError(PyErr("ValueError", "{} operation missing '{}' field", kind, <<field>>))
    ELSE IF ~conv.ok THEN conv
    ELSE IF expr # NoText /\ expr \notin e.has
    THEN ConvError(PyErr("ValueError", "{} operation missing '{}' field", kind, <<expr>>))
    ELSE Converted([kind |-> kind, table |-> e.table, data |-> conv.v,
                    update |-> kind = "Update", condition |-> "condition_expression" \in e.has])

build_put_item(e) == Built("Put", e, "item", py_dict_to_attribute_values(e.body), NoText)

build_delete_item(e) == Built("Delete", e, "key", py_dict_to_attribute_values(e.body), NoText)

build_update_item(e) ==
    Built("Update", e, "key", py_dict_to_attribute_values(e.body), "update_expression")

build_condition_check(e) ==
    Built("ConditionCheck", e, "key", py_dict_to_attribute_values(e.body), "condition_expression")

build_transact_write_item(e) ==
    IF ~e.isDict THEN ConvError(PyErr("TypeError", "object cannot be cast as 'dict'", NoText, <<>>))
    ELSE IF "type" \notin e.has THEN ConvError(ValueErr("Operation missing 'type' field"))
    ELSE IF "table" \notin e.has THEN ConvError(ValueErr("Operation missing 'table' field"))
    ELSE CASE e.type = "put" -> build_put_item(e)
           [] e.type = "delete" -> build_delete_item(e)
           [] e.type = "update" -> build_update_item(e)
           [] e.type = "condition_check" -> build_condition_check(e)
           [] OTHER -> ConvError(PyErr("ValueError", "Unknown operation type: '{}'", e.type, <<>>))

build_transact_get_item(e) ==
    IF ~e.isDict THEN ConvError(PyErr("TypeError", "object cannot be cast as 'dict'", NoText, <<>>))
    ELSE IF "table" \notin e.has THEN ConvError(ValueErr("Get operation missing 'table' field"))
    ELSE Built("Get", e, "key", py_dict_to_attribute_values(e.body), NoText)

(* the for loop that builds the request list: the first failing element ends it *)
BuildWrites(ops) ==
    Collect([i \in 1..Len(ops) |-> build_transact_write_item(ops[i])], "seq", <<>>)
BuildGets(gets) ==
    Collect([i \in 1..Len(gets) |-> build_transact_get_item(gets[i])], "seq", <<>>)

(* a call that got as far as its request p: the request goes to the backend, or the
   failure of building it is the call's result *)
StartCall(callpc, name, p) ==
    IF p.ok
    THEN pc' = callpc /\ UNCHANGED result /\ log' = Append(log, CallEv(name, 0, p.v))
    ELSE pc' = "done" /\ UNCHANGED log /\ result' = Err(p.err)

TransactWriteStart_noEmptyCheck(f, ops) ==
    /\ pc = "idle"
    /\ api' = "transact_write" /\ form' = f /\ input' = ops
    /\ UNCHANGED <<table, all_requests, chunkIdx, pending, retries>>
    /\ IF SizeLimitExceeded(Len(ops))
       THEN /\ pc' = "done" /\ UNCHANGED log
            /\ result' = Err(PyErr("ValueError", "Transaction exceeds maximum of {} items (got {})",
                                   NoText, <<TRANSACTION_MAX_ITEMS, Len(ops)>>))
       ELSE StartCall("tx_call", "TransactWriteItems", BuildWrites(ops))

TransactWriteStart(f, ops) ==
    /\ pc = "idle"
    /\ api' = "transact_write" /\ form' = f /\ input' = ops
    /\ UNCHANGED <<table, all_requests, chunkIdx, pending, retries>>
    /\ IF ops = <<>>
       THEN pc' = "done" /\ result' = Ok /\ UNCHANGED log
       ELSE IF SizeLimitExceeded(Len(ops))
       THEN /\ pc' = "done" /\ UNCHANGED log
            /\ result' = Err(PyErr("ValueError", "Transaction exceeds maximum of {} items (got {})",
                                   NoText, <<TRANSACTION_MAX_ITEMS, Len(ops)>>))
       ELSE StartCall("tx_call", "TransactWriteItems", BuildWrites(ops))

TransactWriteRecv(ans) ==
    /\ pc = "tx_call" /\ api = "transact_write"
    /\ UNCHANGED <<api, form, table, input, all_requests, chunkIdx, pending, retries>>
    /\ pc' = "done"
    /\ IF ans.ok
       THEN result' = Ok /\ log' = Append(log, RespEv(TRUE, 0, <<>>))
       ELSE /\ result' = Err(map_sdk_error(ans.err, NoText))
            /\ log' = Append(log, RespEv(FALSE, 0, <<ans.err>>))

(* Option<item> of one ItemResponse and of one returned entry *)
NoItem == [some |-> FALSE, v |-> EmptyMap]
SomeItem(v) == [some |-> TRUE, v |-> v]

DecodeResponses_skipAbsent(responses) ==
    LET present == SelectSeq(responses, LAMBDA r : r.some)
        dec == [i \in 1..Len(present) |-> attribute_values_to_py_dict(present[i].v)]
        bad == {i \in 1..Len(present) : ~dec[i].ok}
    IN IF bad # {}
       THEN ConvError(dec[CHOOSE i \in bad : TRUE].err)
       ELSE Converted([i \in 1..Len(present) |-> SomeItem(dec[i].v)])

(* the loop over output.responses: the first item that fails to decode ends it *)
DecodeResponses(responses) ==
    LET dec == [i \in 1..Len(responses) |->
                  IF responses[i].some THEN attribute_values_to_py_dict(responses[i].v)
                  ELSE Converted(EmptyMap)]
        bad == {i \in 1..Len(responses) : ~dec[i].ok}
    IN IF bad # {}
       THEN ConvError(dec[CHOOSE i \in bad : \A j \in bad : i <= j].err)
       ELSE Converted([i \in 1..Len(responses) |->
                         IF responses[i].some THEN SomeItem(dec[i].v) ELSE NoItem])

TransactGetStart(f, gets) ==
    /\ pc = "idle"
    /\ api' = "transact_get" /\ form' = f /\ input' = gets
    /\ UNCHANGED <<table, all_requests, chunkIdx, pending, retries>>
    /\ IF gets = <<>>
       THEN pc' = "done" /\ result' = OkValue(<<>>) /\ UNCHANGED log
       ELSE IF SizeLimitExceeded(Len(gets))
       THEN /\ pc' = "done" /\ UNCHANGED log
            /\ result' = Err(PyErr("ValueError", "Transaction exceeds maximum of {} items (got {})",
                                   NoText, <<TRANSACTION_MAX_ITEMS, Len(gets)>>))
       ELSE StartCall("tx_call", "TransactGetItems", BuildGets(gets))

(* ans.responses is output.responses.unwrap_or_default() *)
TransactGetRecv(ans) ==
    /\ pc = "tx_call" /\ api = "transact_get"
    /\ UNCHANGED <<api, form, table, input, all_requests, chunkIdx, pending, retries>>
    /\ pc' = "done"
    /\ IF ans.ok
       THEN /\ log' = Append(log, RespEv(TRUE, 0, ans.responses))
            /\ LET decoded == DecodeResponses(ans.responses)
               IN result' = IF decoded.ok THEN OkValue(decoded.v) ELSE Err(decoded.err)
       ELSE /\ result' = Err(map_sdk_error(ans.err, NoText))
            /\ log' = Append(log, RespEv(FALSE, 0, <<ans.err>>))

(* ---------- transaction inputs and the backend's answers to them ---------- *)
TxSizes ==
    {0, 1, 2, TRANSACTION_MAX_ITEMS - 1, TRANSACTION_MAX_ITEMS}
    \cup (TRANSACTION_MAX_ITEMS + 1)..(TRANSACTION_MAX_ITEMS + MaxTxOver)

(* one element of the operations / gets list: a host object that is a dict or not,
   the set of fields the dict has, and their values *)
ValidOp(i, off) ==
    LET ty == <<"put", "delete", "update", "condition_check">>[((i + off) % 4) + 1]
    IN [isDict |-> TRUE,
        has |-> {"type", "table"}
                  \cup (IF ty = "put" THEN {"item"} ELSE {"key"})
                  \cup (IF ty = "update" THEN {"update_expression"} ELSE {})
                  \cup (IF ty = "condition_check" THEN {"condition_expression"} ELSE {}),
        type |-> ty, table |-> "orders", body |-> KeyDict(i)]

ValidGet(i) ==
    [isDict |-> TRUE, has |-> {"table", "key"}, type |-> NoText, table |-> "orders",
     body |-> KeyDict(i)]

(* the ways one element can be wrong *)
Defective(e, d) ==
    CASE d = "not_dict" -> [e EXCEPT !.isDict = FALSE]
      [] d = "no_type" -> [e EXCEPT !.has = @ \ {"type"}]
      [] d = "no_table" -> [e EXCEPT !.has = @ \ {"table"}]
      [] d = "bad_type" -> [e EXCEPT !.type = "merge"]
      [] d = "no_body" -> [e EXCEPT !.has = @ \ {"item", "key"}]
      [] d = "bad_value" -> [e EXCEPT !.body = << <<"id", PyObject>> >>]
      [] d = "empty_set" -> [e EXCEPT !.body = << <<"id", PySet(<<>>)>> >>]
      [] OTHER -> [e EXCEPT !.has = @ \ {"update_expression", "condition_expression"}]

TxWriteInputs ==
    { [i \in 1..n |-> ValidOp(i, off)] : n \in TxSizes, off \in 0..3 }
    \cup UNION { { [i \in 1..n |-> IF i = b THEN Defective(ValidOp(i, 0), d) ELSE ValidOp(i, 0)]
                   : b \in {1, n} \cap 1..n, d \in {"not_dict", "no_type", "no_table", "bad_type", "no_body", "bad_value",
                            "empty_set", "no_expr"} } : n \in TxSizes }

TxGetInputs ==
    { [i \in 1..n |-> ValidGet(i)] : n \in TxSizes }
    \cup UNION { { [i \in 1..n |-> IF i = b THEN Defective(ValidGet(i), d) ELSE ValidGet(i)]
                   : b \in {1, n} \cap 1..n, d \in {"not_dict", "no_table", "no_body", "bad_value", "empty_set"} }
                 : n \in TxSizes }

TxOutput(responses) == [ok |-> TRUE, responses |-> responses, err |-> NoSdkError]
TxFailure(e) == [ok |-> FALSE, responses |-> <<>>, err |-> e]

(* among them a response that could not be parsed, whose raw payload nevertheless names
   a service code *)
TxErrors ==
    BackendErrors
    \cup { ConstructionFailure("invalid endpoint", <<>>),
           SdkError("ResponseError", NoText, "ValidationException", "msg", <<>>) }
    \cup { ServiceError("TransactionCanceledException", NoText),
           ServiceError("ConditionalCheckFailedException", NoText),
           ServiceError("AccessDeniedException", "msg"),
           ServiceError("ProvisionedThroughputExceededException", NoText),
           ServiceError("TransactionConflictException", "msg"),
           ServiceError(NoText, NoText) }

(* what the table holds under key i, and two items the decoder rejects *)
ItemOf(i) == [id |-> AvN(PyStrOf(PyNat(i))), name |-> AvS("v")]
BadItems ==
    { [id |-> AvN(<<"9", "2", "2", "3", "3", "7", "2", "0", "3", "6", "8", "5", "4", "7", "7",
                    "5", "8", "0", "8">>)],
      [id |-> [t |-> "Unknown"]] }

(* the requests whose item is absent: none of them, the odd ones, or all *)
GoodResponses(len, pat) ==
    [i \in 1..len |-> IF pat = "all" \/ (pat = "odd" /\ i % 2 = 1) THEN NoItem ELSE SomeItem(ItemOf(i))]

(* the responses field: absent (the default, an empty list), one response per request,
   one response too few, or a list holding an item that does not decode *)
TxGetAnswers(n) ==
    {TxOutput(<<>>)}
    \cup { TxOutput(GoodResponses(len, pat)) : len \in {n - 1, n}, pat \in {"none", "odd", "all"} }
    \cup { TxOutput([GoodResponses(n, "odd") EXCEPT ![n] = SomeItem(b)]) : b \in BadItems }
    \cup { TxFailure(e) : e \in TxErrors }

(* ---------- basic_operations/update_op.rs ---------- *)
None == [some |-> FALSE, d |-> <<>>]
Some(d) == [some |-> TRUE, d |-> d]

ReturnValueModes == {"NONE", "ALL_OLD", "UPDATED_OLD", "ALL_NEW", "UPDATED_NEW"}

parse_return_values(value) ==
    IF value \in ReturnValueModes THEN Converted(value)
    ELSE ConvError(PyErr("ValueError", "Invalid return_values: '{}'", value, <<>>))

(* format!("#f{}", i) and format!(":v{}", i): a placeholder is its prefix and its index *)
NamePlaceholder(i) == <<"#f", i>>
ValuePlaceholder(i) == <<":v", i>>

SetExpression(parts) == [text |-> "SET", parts |-> parts]
RawExpression(text) == [text |-> text, parts |-> <<>>]

build_set_expression_oneBased(updates) ==
    LET n == Len(updates)
        auto == [i \in 1..n |-> <<ValuePlaceholder(i - 1), updates[i][2]>>]
        values == py_dict_to_attribute_values(auto)
    IN IF ~values.ok THEN [ok |-> FALSE, expr |-> RawExpression(NoText), names |-> EmptyMap,
                           values |-> EmptyMap, err |-> values.err]
       ELSE [ok |-> TRUE,
             expr |-> SetExpression([i \in 1..n |-> [name |-> NamePlaceholder(i - 1),
                                                     value |-> ValuePlaceholder(i - 1)]]),
             names |-> FromPairs([i \in 1..n |-> <<NamePlaceholder(i), updates[i][1]>>]),
             values |-> values.v,
             err |-> NoErr]

build_set_expression(updates) ==
    LET n == Len(updates)
        auto == [i \in 1..n |-> <<ValuePlaceholder(i - 1), updates[i][2]>>]
        values == py_dict_to_attribute_values(auto)
    IN IF ~values.ok THEN [ok |-> FALSE, expr |-> RawExpression(NoText), names |-> EmptyMap,
                           values |-> EmptyMap, err |-> values.err]
       ELSE [ok |-> TRUE,
             expr |-> SetExpression([i \in 1..n |-> [name |-> NamePlaceholder(i - 1),
                                                     value |-> ValuePlaceholder(i - 1)]]),
             names |-> FromPairs([i \in 1..n |-> <<NamePlaceholder(i - 1), updates[i][1]>>]),
             values |-> values.v,
             err |-> NoErr]

MergeMaps_autoWins(auto, user) ==
    [x \in (DOMAIN auto) \cup (DOMAIN user) |-> IF x \in DOMAIN auto THEN auto[x] ELSE user[x]]

(* every user entry is inserted over the auto-generated map *)
MergeMaps(auto, user) ==
    [x \in (DOMAIN auto) \cup (DOMAIN user) |-> IF x \in DOMAIN user THEN user[x] ELSE auto[x]]

NeitherError == ValueErr("Either 'updates' or 'update_expression' must be provided")

prepare_update_item_rawFirst(tbl, a) ==
    LET key == py_dict_to_attribute_values(a.key)
        built == IF a.update_expression # NoText
                 THEN [ok |-> TRUE, expr |-> RawExpression(a.update_expression),
                       names |-> EmptyMap, values |-> EmptyMap, err |-> NoErr]
                 ELSE build_set_expression(a.updates.d)
        names == IF a.names.some THEN MergeMaps(built.names, FromPairs(a.names.d)) ELSE built.names
        uvals == py_dict_to_attribute_values(a.values.d)
        values == IF a.values.some THEN MergeMaps(built.values, uvals.v) ELSE built.values
        rv == IF a.return_values \notin {NoText, "NONE"}
              THEN parse_return_values(a.return_values) ELSE Converted(NoText)
    IN IF ~key.ok THEN ConvError(key.err)
       ELSE IF ~a.updates.some /\ a.update_expression = NoText THEN ConvError(NeitherError)
       ELSE IF ~built.ok THEN ConvError(built.err)
       ELSE IF a.values.some /\ ~uvals.ok THEN ConvError(uvals.err)
       ELSE IF ~rv.ok THEN ConvError(rv.err)
       ELSE Converted([table |-> tbl, key |-> key.v, update_expression |-> built.expr,
                      condition_expression |-> a.condition_expression,
                      expression_attribute_names |-> names,
                      expression_attribute_values |-> values,
                      return_values_on_condition_check_failure |-> a.return_on_failure,
                      return_values |-> rv.v])

prepare_update_item(tbl, a) ==
    LET key == py_dict_to_attribute_values(a.key)
        built == IF a.updates.some THEN build_set_expression(a.updates.d)
                 ELSE [ok |-> TRUE, expr |-> RawExpression(a.update_expression),
                       names |-> EmptyMap, values |-> EmptyMap, err |-> NoErr]
        names == IF a.names.some THEN MergeMaps(built.names, FromPairs(a.names.d)) ELSE built.names
        uvals == py_dict_to_attribute_values(a.values.d)
        values == IF a.values.some THEN MergeMaps(built.values, uvals.v) ELSE built.values
        rv == IF a.return_values \notin {NoText, "NONE"}
              THEN parse_return_values(a.return_values) ELSE Converted(NoText)
    IN IF ~key.ok THEN ConvError(key.err)
       ELSE IF ~a.updates.some /\ a.update_expression = NoText THEN ConvError(NeitherError)
       ELSE IF ~built.ok THEN ConvError(built.err)
       ELSE IF a.values.some /\ ~uvals.ok THEN ConvError(uvals.err)
       ELSE IF ~rv.ok THEN ConvError(rv.err)
       ELSE Converted([table |-> tbl, key |-> key.v, update_expression |-> built.expr,
                      condition_expression |-> a.condition_expression,
                      expression_attribute_names |-> names,
                      expression_attribute_values |-> values,
                      return_values_on_condition_check_failure |-> a.return_on_failure,
                      return_values |-> rv.v])

UpdateStart(f, tbl, a) ==
    /\ pc = "idle"
    /\ api' = "update" /\ form' = f /\ table' = tbl /\ input' = a
    /\ UNCHANGED <<all_requests, chunkIdx, pending, retries>>
    /\ IF prepare_update_item(tbl, a).ok
       THEN /\ pc' = "up_call" /\ UNCHANGED result
            /\ log' = Append(log, CallEv("UpdateItem", 0, <<prepare_update_item(tbl, a).v>>))
       ELSE /\ pc' = "done" /\ UNCHANGED log
            /\ result' = Err(prepare_update_item(tbl, a).err)

extract_item_from_update_error(ans) ==
    IF ans.err.kind = "ServiceError" /\ ans.err.code = "ConditionalCheckFailedException"
    THEN ans.errItem ELSE NoItem

map_sdk_error_with_item(err, tbl, item) ==
    IF map_outer_sdk_error(err, "DynamoDB") # NoErr
    THEN Err(map_outer_sdk_error(err, "DynamoDB"))
    ELSE IF err.code = "ConditionalCheckFailedException" /\ item.some
            /\ attribute_values_to_py_dict(item.v).ok
    THEN [status |-> "err",
          err |-> PyErr("ConditionalCheckFailedException",
                        "The condition expression evaluated to false", NoText, <<>>),
          value |-> <<attribute_values_to_py_dict(item.v).v>>]
    ELSE Err(map_sdk_error(err, tbl))

UpdateResult(attrs, wcu) == OkValue(<<[attributes |-> attrs, consumed_wcu |-> wcu]>>)

UpdateRecv(ans) ==
    /\ pc = "up_call" /\ api = "update"
    /\ UNCHANGED <<api, form, table, input, all_requests, chunkIdx, pending, retries>>
    /\ pc' = "done"
    /\ IF ans.ok
       THEN /\ log' = Append(log, RespEv(TRUE, 0, <<ans.attrs, ans.wcu>>))
            /\ LET has_return_values == Calls(log)[1].items[1].return_values # NoText
                   attributes == IF has_return_values THEN ans.attrs ELSE NoItem
               IN result' = IF ~attributes.some THEN UpdateResult(NoItem, ans.wcu)
                            ELSE IF attribute_values_to_py_dict(attributes.v).ok
                            THEN UpdateResult(SomeItem(attribute_values_to_py_dict(attributes.v).v),
                                              ans.wcu)
                            ELSE Err(attribute_values_to_py_dict(attributes.v).err)
       ELSE /\ log' = Append(log, RespEv(FALSE, 0, <<ans.err, ans.errItem>>))
            /\ result' = map_sdk_error_with_item(ans.err, table, extract_item_from_update_error(ans))

(* ---------- update inputs and the backend's answers to them ---------- *)
UpdateKeys == { KeyDict(1), << <<"id", PyObject>> >> }

UpdateArgs ==
    [key : UpdateKeys,
     updates :
       { None, Some(<< <<"status", PyStr("a")>> >>),
         Some(<< <<"status", PyStr("a")>>, <<"count", PyNat(2)>> >>),
         Some(<< <<"size", PyNat(3)>>, <<"status", PyStr("a")>>, <<"count", PyBool(FALSE)>> >>),
         Some(<< <<"x", PyObject>> >>) },
     update_expression : {NoText, "SET #n0 = :x0"},
     condition_expression : {NoText},
     names :
       { None, Some(<< <<<<"#n", 0>>, "attr">> >>),
         Some(<< <<<<"#f", 0>>, "other">>, <<<<"#n", 0>>, "attr">> >>) },
     values :
       { None, Some(<< <<<<":x", 0>>, PyNat(5)>> >>),
         Some(<< <<<<":v", 0>>, PyBool(TRUE)>>, <<<<":x", 0>>, PyNat(5)>> >>),
         Some(<< <<<<":v", 0>>, PyObject>> >>) },
     return_on_failure : BOOLEAN, return_values : {NoText, "BOGUS"} \cup ReturnValueModes]

UpdateFailure(e, item) ==
    [ok |-> FALSE, attrs |-> NoItem, wcu |-> NoText, err |-> e, errItem |-> item]

UpdateAnswers ==
    { [ok |-> TRUE, attrs |-> a, wcu |-> w, err |-> NoSdkError, errItem |-> NoItem]
        : a \in {NoItem, SomeItem(ItemOf(1))} \cup { SomeItem(b) : b \in BadItems },
          w \in {NoText, "1.0"} }
    \cup { UpdateFailure(e, NoItem) : e \in TxErrors }
    \cup { UpdateFailure(e, SomeItem(ItemOf(1)))
             : e \in {ServiceError("ConditionalCheckFailedException", NoText),
                      ServiceError("ValidationException", "msg"), TimeoutError} }
    \cup { UpdateFailure(ServiceError("ConditionalCheckFailedException", NoText), SomeItem(b))
             : b \in BadItems }

(* ---------- basic_operations/delete.rs ---------- *)
extract_string_map(dict) == IF dict.some THEN Some(FromPairs(dict.d)) ELSE None

DeleteReturnError_none(s) == NoErr

(* the match on return_values: ALL_OLD and NONE are the only strings accepted *)
DeleteReturnError(s) ==
    IF s \in {NoText, "ALL_OLD", "NONE"} THEN NoErr
    ELSE PyErr("ValueError", "Invalid return_values for delete_item: '{}'. Must be NONE or ALL_OLD",
               s, <<>>)

prepare_delete_item(tbl, a) ==
    LET key == py_dict_to_attribute_values(a.key)
        names == extract_string_map(a.names)
        values == py_dict_to_attribute_values(a.values.d)
    IN IF ~key.ok THEN ConvError(key.err)
       ELSE IF a.values.some /\ ~values.ok THEN ConvError(values.err)
       ELSE IF DeleteReturnError(a.return_values) # NoErr
       THEN ConvError(DeleteReturnError(a.return_values))
       ELSE Converted([table |-> tbl, key |-> key.v,
                      condition_expression |-> a.condition_expression,
                      expression_attribute_names |-> names,
                      expression_attribute_values |-> IF a.values.some THEN Some(values.v) ELSE None,
                      return_values_on_condition_check_failure |-> a.return_on_failure,
                      return_values |-> IF a.return_values = "ALL_OLD" THEN "ALL_OLD" ELSE NoText])

DeleteStart(f, tbl, a) ==
    /\ pc = "idle"
    /\ api' = "delete" /\ form' = f /\ table' = tbl /\ input' = a
    /\ UNCHANGED <<all_requests, chunkIdx, pending, retries>>
    /\ IF prepare_delete_item(tbl, a).ok
       THEN /\ pc' = "del_call" /\ UNCHANGED result
            /\ log' = Append(log, CallEv("DeleteItem", 0, <<prepare_delete_item(tbl, a).v>>))
       ELSE /\ pc' = "done" /\ UNCHANGED log
            /\ result' = Err(prepare_delete_item(tbl, a).err)

extract_item_from_delete_error(ans) ==
    IF ans.err.kind = "ServiceError" /\ ans.err.code = "ConditionalCheckFailedException"
    THEN ans.errItem ELSE NoItem

DeleteRecv(ans) ==
    /\ pc = "del_call" /\ api = "delete"
    /\ UNCHANGED <<api, form, table, input, all_requests, chunkIdx, pending, retries>>
    /\ pc' = "done"
    /\ IF ans.ok
       THEN /\ log' = Append(log, RespEv(TRUE, 0, <<ans.attrs, ans.wcu>>))
            /\ LET has_return_values == Calls(log)[1].items[1].return_values # NoText
                   attributes == IF has_return_values THEN ans.attrs ELSE NoItem
               IN result' = IF ~attributes.some THEN UpdateResult(NoItem, ans.wcu)
                            ELSE IF attribute_values_to_py_dict(attributes.v).ok
                            THEN UpdateResult(SomeItem(attribute_values_to_py_dict(attributes.v).v),
                                              ans.wcu)
                            ELSE Err(attribute_values_to_py_dict(attributes.v).err)
       ELSE /\ log' = Append(log, RespEv(FALSE, 0, <<ans.err, ans.errItem>>))
            /\ result' = map_sdk_error_with_item(ans.err, table, extract_item_from_delete_error(ans))

DeleteArgs ==
    [key : UpdateKeys, condition_expression : {NoText, "attribute_exists(id)"},
     names : {None, Some(<< <<<<"#n", 0>>, "attr">> >>)},
     values : {None, Some(<< <<<<":x", 0>>, PyNat(5)>> >>), Some(<< <<<<":v", 0>>, PyObject>> >>)},
     return_on_failure : BOOLEAN, return_values : {NoText, "BOGUS"} \cup ReturnValueModes]

(* ---------- client.rs: DynamoClient::put_item and DynamoClient::get_item ---------- *)
(* e.to_string() of the failure comes from the backend's client library: the text names
   the failure's structural kind, and it may or may not show the service code *)
(* err_msg.contains(code), for the texts above *)
Contains(err_msg, code) == err_msg = code

PutItemStart(tbl, item) ==
    /\ pc = "idle"
    /\ api' = "put" /\ form' = "sync" /\ table' = tbl /\ input' = item
    /\ UNCHANGED <<all_requests, chunkIdx, pending, retries>>
    /\ IF py_dict_to_attribute_values(item).ok
       THEN /\ pc' = "put_call" /\ UNCHANGED result
            /\ log' = Append(log, CallEv("PutItem", 0,
                                         <<[table |-> tbl, item |-> py_dict_to_attribute_values(item).v]>>))
       ELSE /\ pc' = "done" /\ UNCHANGED log
            /\ result' = Err(py_dict_to_attribute_values(item).err)

PutItemRecv(ans) ==
    /\ pc = "put_call" /\ api = "put"
    /\ UNCHANGED <<api, form, table, input, all_requests, chunkIdx, pending, retries>>
    /\ pc' = "done"
    /\ IF ans.ok
       THEN /\ log' = Append(log, RespEv(TRUE, 0, <<>>))
            /\ result' = Ok
       ELSE /\ log' = Append(log, RespEv(FALSE, 0, <<ans.err, ans.display>>))
            /\ result' = IF Contains(ans.display, "ResourceNotFoundException")
                         THEN Err(PyErr("ValueError", "Table not found: {}", table, <<>>))
                         ELSE IF Contains(ans.display, "ValidationException")
                         THEN Err(PyErr("ValueError", "Validation error: {}", ans.display, <<>>))
                         ELSE Err(PyErr("RuntimeError", "Failed to put item: {}", ans.display, <<>>))

GetItemStart(tbl, key) ==
    /\ pc = "idle"
    /\ api' = "get" /\ form' = "sync" /\ table' = tbl /\ input' = key
    /\ UNCHANGED <<all_requests, chunkIdx, pending, retries>>
    /\ IF py_dict_to_attribute_values(key).ok
       THEN /\ pc' = "get_call" /\ UNCHANGED result
            /\ log' = Append(log, CallEv("GetItem", 0,
                                         <<[table |-> tbl, key |-> py_dict_to_attribute_values(key).v]>>))
       ELSE /\ pc' = "done" /\ UNCHANGED log
            /\ result' = Err(py_dict_to_attribute_values(key).err)

GetItemRecv(ans) ==
    /\ pc = "get_call" /\ api = "get"
    /\ UNCHANGED <<api, form, table, input, all_requests, chunkIdx, pending, retries>>
    /\ pc' = "done"
    /\ IF ans.ok
       THEN /\ log' = Append(log, RespEv(TRUE, 0, <<ans.item>>))
            /\ result' = IF ~ans.item.some THEN OkValue(<<NoItem>>)
                         ELSE IF attribute_values_to_py_dict(ans.item.v).ok
                         THEN OkValue(<<SomeItem(attribute_values_to_py_dict(ans.item.v).v)>>)
                         ELSE Err(attribute_values_to_py_dict(ans.item.v).err)
       ELSE /\ log' = Append(log, RespEv(FALSE, 0, <<ans.err, ans.display>>))
            /\ result' = IF Contains(ans.display, "ResourceNotFoundException")
                         THEN Err(PyErr("ValueError", "Table not found: {}", table, <<>>))
                         ELSE Err(PyErr("RuntimeError", "Failed to get item: {}", ans.display, <<>>))

(* the backend's answers to put_item and get_item *)
ItemFailures ==
    UNION { { [ok |-> FALSE, item |-> NoItem, err |-> e, display |-> text]
              : text \in {e.kind} \cup (IF e.kind = "ServiceError" /\ e.code # NoText
                                        THEN {e.code} ELSE {}) }
            : e \in BackendErrors }
GetItemAnswers ==
    { [ok |-> TRUE, item |-> i, err |-> NoSdkError, display |-> NoText]
      : i \in {NoItem, SomeItem(ItemOf(1))} \cup {SomeItem(b) : b \in BadItems} }
    \cup ItemFailures

(* ---------- kms/operations.rs: execute_encrypt ---------- *)
EncryptStart(f, key_id, plaintext) ==
    /\ pc = "idle"
    /\ api' = "encrypt" /\ form' = f /\ table' = NoText
    /\ input' = <<key_id, plaintext>>
    /\ UNCHANGED <<all_requests, chunkIdx, pending, retries, result>>
    /\ pc' = "kms_call"
    /\ log' = Append(log, CallEv("Encrypt", 0, <<[key_id |-> key_id, plaintext |-> plaintext]>>))

EncryptRecv(ans) ==
    /\ pc = "kms_call" /\ api = "encrypt"
    /\ UNCHANGED <<api, form, table, input, all_requests, chunkIdx, pending, retries>>
    /\ pc' = "done"
    /\ IF ans.ok
       THEN /\ log' = Append(log, RespEv(TRUE, 0, <<ans.blob>>))
            /\ result' = IF ans.blob.some
                         THEN OkValue(<<"ENC:", ans.blob.d>>)
                         ELSE Err(PyErr("EncryptionError", "No ciphertext returned from KMS", NoText, <<>>))
       ELSE /\ log' = Append(log, RespEv(FALSE, 0, <<ans.err>>))
            /\ result' = Err(map_kms_error(ans.err))

(* ---------- errors.rs: map_s3_error applied to the failure of an object-store request ---------- *)
S3RequestFailed(e, bucket, key) ==
    /\ pc = "idle"
    /\ api' = "s3" /\ form' = "sync" /\ table' = NoText
    /\ input' = <<bucket, key>>
    /\ UNCHANGED <<all_requests, chunkIdx, pending, retries>>
    /\ pc' = "done"
    /\ log' = log \o <<CallEv("S3", 0, <<[bucket |-> bucket, key |-> key]>>), RespEv(FALSE, 0, <<e>>)>>
    /\ result' = Err(map_s3_error(e, bucket, key))

(* each backend's failures *)
TransportErrors ==
    { DispatchFailure("timeout"), DispatchFailure("io"), DispatchFailure("other"), TimeoutError,
      ResponseError, SdkError("ResponseError", NoText, "ValidationException", "msg", <<>>),
      ConstructionFailure("NoCredentialsError", <<>>), ConstructionFailure("invalid endpoint", <<>>) }
S3Errors ==
    SharedCodeErrors \cup TransportErrors
    \cup { ServiceError(c, NoText)
             : c \in {"NoSuchBucket", "NoSuchKey", "NotFound", "BucketAlreadyExists",
                      "BucketAlreadyOwnedByYou", "InvalidBucketName", "EntityTooLarge",
                      "MaxSizeExceeded", "InvalidRange"} }
    \cup { ServiceError("InternalError", "msg"), ServiceError(NoText, NoText) }
(* the answers to Encrypt: with or without a ciphertext blob, or a failure *)
EncryptAnswers ==
    { [ok |-> TRUE, blob |-> b, err |-> NoSdkError]
      : b \in {[some |-> FALSE, d |-> NoText], [some |-> TRUE, d |-> "blob"]} }
    \cup { [ok |-> FALSE, blob |-> [some |-> FALSE, d |-> NoText], err |-> e]
           : e \in SharedCodeErrors \cup TransportErrors
                   \cup { ServiceError(c, NoText) : c \in DOMAIN KmsKeyErrors }
                   \cup { ServiceError("KMSInternalException", "msg"), ServiceError(NoText, NoText) } }

(* ---------- the codec applied to one host value: encode, then decode its output ---------- *)
EncodeValue(v) ==
    /\ pc = "idle"
    /\ api' = "codec" /\ input' = v
    /\ UNCHANGED <<form, table, all_requests, chunkIdx, pending, retries>>
    /\ IF py_to_attribute_value_direct(v).ok
       THEN /\ pc' = "encoded" /\ UNCHANGED result
            /\ log' = Append(log, [ev |-> "encoded", name |-> NoText, chunk |-> 0,
                                  items |-> <<py_to_attribute_value_direct(v).v>>, ms |-> 0])
       ELSE /\ pc' = "done" /\ UNCHANGED log
            /\ result' = Err(py_to_attribute_value_direct(v).err)

DecodeValue ==
    /\ pc = "encoded" /\ api = "codec"
    /\ UNCHANGED <<api, form, table, input, all_requests, chunkIdx, pending, retries, log>>
    /\ pc' = "done"
    /\ result' = IF attribute_value_to_py_direct(log[1].items[1]).ok
                 THEN OkValue(<<attribute_value_to_py_direct(log[1].items[1]).v>>)
                 ELSE Err(attribute_value_to_py_direct(log[1].items[1]).err)

MaxDepth == 2

(* the host values the codec is applied to: scalars, among them the integers at and
   just beyond the ends of the signed 64-bit range, sets in the order iteration yields
   their elements, and lists and dicts of these *)
RECURSIVE CodecValues(_)
CodecValues(depth) ==
    IF depth = 0
    THEN { PyNone, PyStr("a"), PyStr(""), PyBool(TRUE), PyBool(FALSE),
          PyNat(0), PyNat(5), PyInt(TRUE, <<7>>), PyInt(FALSE, I64MaxDigits),
          PyInt(FALSE, [I64MaxDigits EXCEPT ![19] = 8]), PyInt(TRUE, [I64MaxDigits EXCEPT ![19] = 8]),
          PyInt(TRUE, [I64MaxDigits EXCEPT ![19] = 9]),
          PyFloat(FALSE, <<1>>, <<5>>), PyFloat(TRUE, <<0>>, <<2, 5>>), PyFloat(FALSE, <<5>>, <<0>>),
          PyFloat(FALSE, <<0>>, <<0>>), PyFloat(TRUE, <<0>>, <<0>>),
          PyFloatExp(FALSE, <<1>>, <<0>>, 16), PyFloatExp(FALSE, <<1>>, <<5>>, 0 - 7),
          PyInf(FALSE), PyBytes(<<>>), PyBytes(<<0, 255>>), PyObject }
         \cup
         { PySet(<<>>), PyFrozenSet(<<>>),
          PySet(<<PyStr("a"), PyStr("b")>>), PyFrozenSet(<<PyStr("a")>>),
          PySet(<<PyNat(1), PyFloat(FALSE, <<2>>, <<5>>)>>),
          PySet(<<PyNat(1), PyInt(FALSE, [I64MaxDigits EXCEPT ![19] = 8])>>),
          PyFrozenSet(<<PyBytes(<<1>>), PyBytes(<<>>)>>),
          PySet(<<PyBool(TRUE)>>), PySet(<<PyBool(TRUE), PyNat(2)>>), PySet(<<PyNat(2), PyBool(FALSE)>>),
          PySet(<<PyStr("a"), PyNat(1)>>), PySet(<<PyNat(1), PyStr("a")>>),
          PySet(<<PyBytes(<<1>>), PyStr("a")>>), PySet(<<PyNat(1), PyBytes(<<1>>)>>),
          PySet(<<PyNone>>), PySet(<<PyStr("a"), PyBool(TRUE)>>) }
    ELSE LET inner == CodecValues(depth - 1)
         IN inner
            \cup { PyList(<<x>>) : x \in inner }
            \cup { PyList(<<PyNat(5), x>>) : x \in inner }
            \cup { PyDict(<< <<"k", x>> >>) : x \in inner }
            \cup { PyList(<<>>), PyDict(<<>>), PyDict(<< <<"a", PyBool(TRUE)>>, <<"b", PyNat(1)>> >>) }

(* ---------- a second thread of the host program, using the same client ---------- *)
(* batch_write receives the interpreter token py and never detaches it: block_on and
   std::thread::sleep run with the interpreter lock held, from entry to return; the
   awaitable form converts its arguments and returns, and its loop runs on the runtime's
   threads without the lock (tokio::time::sleep(delay).await) *)
GilHeldByCall == api = "batch_write" /\ form = "sync" /\ pc \in {"bw_call", "bw_sleep"}

(* an unrelated operation, called from another thread while the batch write is in a
   backoff delay: entering a method of the client takes the interpreter lock, and so does
   building its result *)
OtherStart ==
    /\ pc = "bw_sleep" /\ other = "idle"
    /\ ~GilHeldByCall
    /\ other' = "running"
    /\ UNCHANGED <<pc, api, form, table, input, all_requests, chunkIdx, pending, retries,
                   log, result>>

OtherFinish ==
    /\ other = "running"
    /\ ~GilHeldByCall
    /\ other' = "done"
    /\ UNCHANGED <<pc, api, form, table, input, all_requests, chunkIdx, pending, retries,
                   log, result>>

(* ---------- the client: one call at a time ---------- *)
Init ==
    /\ pc = "idle" /\ api = NoText /\ form = "sync" /\ table = NoText
    /\ input = <<>>
    /\ all_requests = <<>> /\ chunkIdx = 0 /\ pending = <<>> /\ retries = 0
    /\ log = <<>> /\ result = [status |-> "none", err |-> NoErr, value |-> <<>>]
    /\ other = "idle"

(* runtime.block_on(request.send()) / request.send().await returns with the backend's answer *)
BatchWriteAnswer ==
    /\ pc = "bw_call"
    /\ \E ans \in BatchAnswers(pending) : BatchWriteRecv(ans)
    /\ UNCHANGED other

(* std::thread::sleep(delay) / tokio::time::sleep(delay).await returns *)
BackoffEnds ==
    /\ BatchWriteWake
    /\ UNCHANGED other

Next ==
    \/ /\ pc = "idle"
       /\ \E f \in Forms, tbl \in Tables, np \in {0, 1, BATCH_WRITE_MAX_ITEMS - 1, BATCH_WRITE_MAX_ITEMS,
                     BATCH_WRITE_MAX_ITEMS + 1, BATCH_WRITE_MAX_ITEMS + MaxOverflow},
             nd \in 0..MaxDels :
             \E at \in {0, 1, np + nd} \cap 0..(np + nd), obj \in BadObjects :
                /\ at = 0 => obj = PyObject
                /\ BatchWriteStart(f, tbl, BatchItems(np, 0, at, obj), BatchItems(nd, np, at, obj))
       /\ UNCHANGED other
    \/ BatchWriteAnswer
    \/ BackoffEnds
    \/ /\ pc = "idle"
       /\ \E f \in Forms, ops \in TxWriteInputs : TransactWriteStart(f, ops)
       /\ UNCHANGED other
    \/ /\ pc = "tx_call"
       /\ \E ans \in {TxOutput(<<>>)} \cup {TxFailure(e) : e \in TxErrors} : TransactWriteRecv(ans)
       /\ UNCHANGED other
    \/ /\ pc = "idle"
       /\ \E f \in Forms, gets \in TxGetInputs : TransactGetStart(f, gets)
       /\ UNCHANGED other
    \/ /\ pc = "tx_call" /\ api = "transact_get"
       /\ \E ans \in TxGetAnswers(Len(input)) : TransactGetRecv(ans)
       /\ UNCHANGED other
    \/ /\ pc = "idle"
       /\ \E f \in Forms, tbl \in Tables, a \in UpdateArgs : UpdateStart(f, tbl, a)
       /\ UNCHANGED other
    \/ /\ pc = "up_call"
       /\ \E ans \in UpdateAnswers : UpdateRecv(ans)
       /\ UNCHANGED other
    \/ /\ pc = "idle"
       /\ \E f \in Forms, tbl \in Tables, a \in DeleteArgs : DeleteStart(f, tbl, a)
       /\ UNCHANGED other
    \/ /\ pc = "del_call"
       /\ \E ans \in UpdateAnswers \cup { UpdateFailure(e, NoItem) : e \in SharedCodeErrors } :
             DeleteRecv(ans)
       /\ UNCHANGED other
    \/ /\ pc = "idle"
       /\ \E tbl \in Tables,
             item \in { << <<"id", PyNat(1)>>, <<"name", PyStr("v")>> >>, << <<"id", PyObject>> >> } :
             PutItemStart(tbl, item)
       /\ UNCHANGED other
    \/ /\ pc = "put_call"
       /\ \E ans \in {[ok |-> TRUE, item |-> NoItem, err |-> NoSdkError, display |-> NoText]}
                    \cup ItemFailures : PutItemRecv(ans)
       /\ UNCHANGED other
    \/ /\ pc = "idle"
       /\ \E tbl \in Tables, key \in UpdateKeys : GetItemStart(tbl, key)
       /\ UNCHANGED other
    \/ /\ pc = "get_call"
       /\ \E ans \in GetItemAnswers : GetItemRecv(ans)
       /\ UNCHANGED other
    \/ /\ pc = "idle"
       /\ \E f \in Forms, k \in {"alias/app"}, t \in {"", "secret"} : EncryptStart(f, k, t)
       /\ UNCHANGED other
    \/ /\ pc = "kms_call"
       /\ \E ans \in EncryptAnswers : EncryptRecv(ans)
       /\ UNCHANGED other
    \/ /\ pc = "idle"
       /\ \E e \in S3Errors, b \in {NoText, "files"}, k \in {NoText, "a.bin"} :
             S3RequestFailed(e, b, k)
       /\ UNCHANGED other
    \/ /\ pc = "idle"
       /\ \E v \in CodecValues(MaxDepth) : EncodeValue(v)
       /\ UNCHANGED other
    \/ /\ DecodeValue
       /\ UNCHANGED other
    \/ OtherStart
    \/ OtherFinish

Spec == Init /\ [][Next]_vars

(* every request sent gets its answer (or the SDK's own timeout or dispatch failure), and
   every sleep returns *)
FairSpec == Spec /\ WF_vars(BatchWriteAnswer) /\ WF_vars(BackoffEnds)

(* ====================== properties ====================== *)
LastEv == log[Len(log)]
BatchDone == pc = "done" /\ api = "batch_write"
NoUnprocessedReported == \A i \in 1..Len(log) : log[i].ev = "ok" => log[i].items = <<>>
Exhausted == BatchDone /\ Len(log) > 0 /\ LastEv.ev = "sleep"
CallsOfChunk(c) == SelectSeq(log, LAMBDA e : e.ev = "call" /\ e.chunk = c)
CallsBefore(j) == Cardinality({i \in 1..(j - 1) : log[i].ev = "call" /\ log[i].chunk = log[j].chunk})

\* C1: a successful batchWrite of n > 0 requests during which no response reported
\* unprocessed items made exactly ceil(n/25) calls; the merged list is the puts in input
\* order followed by the deletes in input order; call k carries the k-th contiguous slice
\* of at most 25 requests, and every request is in exactly one call.
C1_ChunkedCalls ==
    (BatchDone /\ result.status = "ok" /\ Len(all_requests) > 0 /\ NoUnprocessedReported)
    => LET n == Len(all_requests)
           cs == Calls(log)
       IN /\ n = input.puts + input.dels
          /\ \A i \in 1..n :
                all_requests[i] = IF i <= input.puts
                                  THEN [op |-> "put", id |-> i]
                                  ELSE [op |-> "delete", id |-> i - input.puts]
          /\ Len(cs) = (n + 24) \div 25
          /\ \A k \in 1..Len(cs) :
                /\ Len(cs[k].items) <= 25
                /\ cs[k].items = SubSeq(all_requests, 25 * (k - 1) + 1,
                                        IF 25 * k < n THEN 25 * k ELSE n)
          /\ \A i \in 1..n :
                Cardinality({kj \in {<<k, j>> : k \in 1..Len(cs), j \in 1..25} :
                                /\ kj[2] <= Len(cs[kj[1]].items)
                                /\ cs[kj[1]].items[kj[2]] = all_requests[i]}) = 1

C1_Witness ==
    /\ BatchDone /\ result.status = "ok" /\ NoUnprocessedReported
    /\ input.puts > 25 /\ input.dels > 0
    /\ Len(Calls(log)) = 2
    /\ Len(Calls(log)[1].items) = 25
    /\ Len(Calls(log)[2].items) = Len(all_requests) - 25

\* C2: after a response that reports a non-empty unprocessed list for the target table,
\* the next backend call is for the same chunk and carries exactly that list.
C2_ResubmitExactlyUnprocessed ==
    \A i \in 1..Len(log) :
        (log[i].ev = "ok" /\ log[i].items # <<>>)
        => \A j \in (i + 1)..Len(log) :
              (log[j].ev = "call" /\ \A m \in (i + 1)..(j - 1) : log[m].ev # "call")
              => (log[j].items = log[i].items /\ log[j].chunk = log[i].chunk)

C2_Witness ==
    \E i \in 2..Len(log) :
        /\ log[i].ev = "ok" /\ Len(log[i].items) = 3
        /\ log[i - 1].ev = "call" /\ Len(log[i - 1].items) = 25
        /\ Len(all_requests) > 25
        /\ \E j \in (i + 1)..Len(log) : log[j].ev = "call" /\ Len(log[j].items) = 3

\* C3: the delay slept before the k-th retry of a chunk (k = 1, 2, ...) is 50ms * 2^k,
\* and the delays before successive retries of one chunk are strictly increasing.
C3_BackoffDoubles ==
    \A j \in 2..Len(log) :
        (log[j].ev = "call" /\ log[j - 1].ev = "sleep")
        => /\ log[j - 1].ms = 50 * 2^CallsBefore(j)
           /\ \A i \in 1..(j - 2) :
                 (log[i].ev = "sleep" /\ log[i].chunk = log[j].chunk) => log[i].ms < log[j - 1].ms

C3_Witness ==
    \E j \in 2..Len(log) :
        /\ log[j].ev = "call" /\ log[j - 1].ev = "sleep"
        /\ CallsBefore(j) = 3 /\ log[j - 1].ms = 400
        /\ log[j].chunk = 2

\* C4: when batchWrite stops retrying a chunk with requests still unprocessed it fails,
\* and the failure message carries the exhaustion text with exactly the size of the last
\* unprocessed list the backend reported, in the blocking and in the awaitable form.
C4_ExhaustionNamesCount ==
    Exhausted
    => /\ result.status = "err"
       /\ ExhaustedText \in {result.err.text, result.err.subject}
       /\ Len(result.err.args) = 2
       /\ result.err.args[1] = Len(log[Len(log) - 1].items)
       /\ log[Len(log) - 1].ev = "ok"

C4_Witness ==
    /\ Exhausted /\ form = "async"
    /\ Len(log[Len(log) - 1].items) = 3
    /\ Len(CallsOfChunk(chunkIdx)[1].items) = 25

\* C5: when batchWrite gives up on a chunk, the chunk was submitted once and its
\* remainder resubmitted 5 more times (6 backend calls for the chunk), and the attempt
\* counter never exceeds 5.
C5_FiveRetriesBeforeGivingUp ==
    /\ retries <= 5
    /\ Exhausted => Len(CallsOfChunk(chunkIdx)) = 1 + 5

\* C6: a backend error ends batchWrite at once: the error is the last thing that happens
\* (no retry, no backoff delay, no call for this or a later chunk) and the call fails.
C6_ErrorAbortsBatch ==
    \A i \in 1..Len(log) :
        (api = "batch_write" /\ log[i].ev = "err")
        => (i = Len(log) /\ pc = "done" /\ result.status = "err")

C6_Witness ==
    /\ BatchDone /\ Len(log) > 0 /\ LastEv.ev = "err"
    /\ chunkIdx = 1 /\ Len(all_requests) > 25
    /\ \E i \in 1..Len(log) : log[i].ev = "sleep"

TxApi == api \in {"transact_write", "transact_get"}
TextOfDigits(ds) == [k \in 1..Len(ds) |-> DigitChars[ds[k] + 1]]
DigitsOfText(t) == [k \in 1..Len(t) |-> DigitVal(t[k])]
KindName(ty) ==
    CASE ty = "put" -> "Put" [] ty = "delete" -> "Delete" [] ty = "update" -> "Update"
      [] ty = "condition_check" -> "ConditionCheck" [] OTHER -> "Get"

WellFormed(e) ==
    /\ e.isDict /\ "table" \in e.has
    /\ \A k \in 1..Len(e.body) : e.body[k][2].ty \in {"NoneType", "str", "bool", "int"}
    /\ IF api = "transact_get" THEN "key" \in e.has
       ELSE /\ "type" \in e.has
            /\ CASE e.type = "put" -> "item" \in e.has
                 [] e.type = "delete" -> "key" \in e.has
                 [] e.type = "update" -> {"key", "update_expression"} \subseteq e.has
                 [] e.type = "condition_check" -> {"key", "condition_expression"} \subseteq e.has
                 [] OTHER -> FALSE

\* C7: transactWrite / transactGet with more than 100 entries fail with the size-limit
\* ValueError and no backend call; with exactly 100 well-formed entries they make exactly
\* one backend call that carries the 100 entries in request order; in both forms.
C7_SizeLimit ==
    /\ (TxApi /\ Len(input) > 100)
       => /\ pc = "done" /\ log = <<>>
          /\ result = Err(PyErr("ValueError", "Transaction exceeds maximum of {} items (got {})",
                                NoText, <<100, Len(input)>>))
    /\ (TxApi /\ Len(input) = 100 /\ \A i \in 1..100 : WellFormed(input[i]))
       => /\ Len(Calls(log)) = 1
          /\ Len(Calls(log)[1].items) = 100
          /\ \A i \in 1..100 :
                /\ Calls(log)[1].items[i].data.id = [t |-> "N", n |-> TextOfDigits(input[i].body[1][2].digits)]
                /\ Calls(log)[1].items[i].kind =
                      (IF api = "transact_get" THEN "Get" ELSE KindName(input[i].type))

C7_Witness ==
    /\ api = "transact_write" /\ form = "async" /\ pc = "done"
    /\ Len(input) = 100 /\ Len(Calls(log)) = 1 /\ Len(Calls(log)[1].items) = 100
    /\ Calls(log)[1].items[100].data.id.n = <<"1", "0", "0">>

GetAnswered == api = "transact_get" /\ pc = "done" /\ Len(log) = 2 /\ log[2].ev = "ok"

WriteRejected ==
    /\ api = "transact_write" /\ pc = "done" /\ Len(log) = 2 /\ log[2].ev = "err"
    /\ log[2].items[1].kind = "ServiceError"

\* C9 (as stated): any backend rejection of a transactWrite is raised as TransactionCanceled.
C9_AnyRejectionCancels ==
    WriteRejected => result.err.exc = "TransactionCanceledException"

\* C9 (amended): a backend rejection of a transactWrite is raised as TransactionCanceled
\* exactly when its service error code is TransactionCanceledException (the code a failed
\* ConditionCheck cancels the transaction with); transactWrite returns success only when
\* its list was empty or its single backend call succeeded.
C9_CanceledIffCode ==
    /\ WriteRejected
       => /\ result.status = "err"
          /\ (result.err.exc = "TransactionCanceledException")
                <=> (log[2].items[1].code = "TransactionCanceledException")
    /\ (api = "transact_write" /\ pc = "done" /\ result.status = "ok")
       => \/ input = <<>> /\ log = <<>>
          \/ Len(log) = 2 /\ log[1].ev = "call" /\ log[2].ev = "ok" /\ Len(log[1].items) = Len(input)

C9_Witness ==
    /\ WriteRejected
    /\ log[2].items[1].code = "TransactionCanceledException"
    /\ result.err.exc = "TransactionCanceledException"
    /\ \E i \in 1..Len(input) : input[i].type = "condition_check"

Convertible(d) == \A k \in 1..Len(d) : d[k][2].ty \in {"NoneType", "str", "bool", "int"}
EncodingOf(obj) ==
    CASE obj.ty = "bool" -> [t |-> "BOOL", b |-> obj.b]
      [] obj.ty = "int" -> [t |-> "N", n |-> TextOfDigits(obj.digits)]
      [] obj.ty = "str" -> [t |-> "S", s |-> obj.v]
      [] OTHER -> [t |-> "NULL"]
Submitted == Calls(log)[1].items[1]

\* C10: update with neither a field mapping nor an expression fails locally (the ValueError
\* 'Either ... must be provided' when the key converts) with no backend call; update with
\* both is accepted and submitted; and in every submitted update each caller-supplied
\* name / value placeholder is submitted with the caller's entry, the auto-generated
\* #f{i} / :v{i} entries filling only the keys the caller did not supply.
C10_UpdateArguments ==
    api = "update"
    => /\ (~input.updates.some /\ input.update_expression = NoText)
          => /\ pc = "done" /\ log = <<>> /\ result.status = "err"
             /\ Convertible(input.key) => result.err = NeitherError
       /\ (/\ input.updates.some /\ input.update_expression # NoText
           /\ Convertible(input.key) /\ Convertible(input.updates.d) /\ Convertible(input.values.d)
           /\ input.return_values \in {NoText} \cup ReturnValueModes)
          => Len(Calls(log)) = 1
       /\ Len(Calls(log)) = 1
          => LET n == IF input.updates.some THEN Len(input.updates.d) ELSE 0
                 userNames == {input.names.d[k][1] : k \in 1..Len(input.names.d)}
                 userValues == {input.values.d[k][1] : k \in 1..Len(input.values.d)}
             IN /\ DOMAIN Submitted.expression_attribute_names
                     = userNames \cup {<<"#f", i>> : i \in 0..(n - 1)}
                /\ DOMAIN Submitted.expression_attribute_values
                     = userValues \cup {<<":v", i>> : i \in 0..(n - 1)}
                /\ \A k \in 1..Len(input.names.d) :
                      Submitted.expression_attribute_names[input.names.d[k][1]] = input.names.d[k][2]
                /\ \A k \in 1..Len(input.values.d) :
                      Submitted.expression_attribute_values[input.values.d[k][1]]
                         = EncodingOf(input.values.d[k][2])
                /\ \A i \in 0..(n - 1) :
                      /\ <<"#f", i>> \notin userNames
                         => Submitted.expression_attribute_names[<<"#f", i>>] = input.updates.d[i + 1][1]
                      /\ <<":v", i>> \notin userValues
                         => Submitted.expression_attribute_values[<<":v", i>>]
                               = EncodingOf(input.updates.d[i + 1][2])

C10_Witness ==
    /\ api = "update" /\ Len(Calls(log)) = 1
    /\ input.updates.some /\ Len(input.updates.d) = 2 /\ input.update_expression # NoText
    /\ input.updates.d[1][1] = "status"
    /\ Submitted.expression_attribute_names[<<"#f", 0>>] = "other"
    /\ Submitted.expression_attribute_names[<<"#f", 1>>] = "count"
    /\ Submitted.expression_attribute_values[<<":v", 0>>] = [t |-> "BOOL", b |-> TRUE]
    /\ Submitted.expression_attribute_values[<<":v", 1>>] = [t |-> "N", n |-> <<"2">>]

\* C11: delete with a return_values string other than NONE or ALL_OLD (UPDATED_OLD, ALL_NEW,
\* UPDATED_NEW included) fails with a local ValueError and no backend call; with NONE, ALL_OLD
\* or no return_values (and convertible key and values) exactly one DeleteItem call is
\* submitted, asking for ALL_OLD only when ALL_OLD was given.
C11_DeleteReturnMode ==
    api = "delete"
    => /\ input.return_values \notin {NoText, "NONE", "ALL_OLD"}
          => /\ pc = "done" /\ log = <<>> /\ result.status = "err"
             /\ result.err.exc \in {"ValueError", "TypeError"}
             /\ (Convertible(input.key) /\ Convertible(input.values.d))
                => /\ result.err.exc = "ValueError"
                   /\ result.err.subject = input.return_values
       /\ (/\ input.return_values \in {NoText, "NONE", "ALL_OLD"}
           /\ Convertible(input.key) /\ Convertible(input.values.d))
          => /\ Len(Calls(log)) = 1 /\ log[1].name = "DeleteItem"
             /\ log[1].items[1].return_values
                   = (IF input.return_values = "ALL_OLD" THEN "ALL_OLD" ELSE NoText)

C11_Witness ==
    /\ api = "delete" /\ pc = "done" /\ log = <<>>
    /\ input.return_values = "UPDATED_NEW"
    /\ Convertible(input.key) /\ Convertible(input.values.d)
    /\ result.status = "err" /\ result.err.exc = "ValueError"

ItemOpRejected ==
    /\ api \in {"update", "delete"} /\ pc = "done" /\ Len(log) = 2 /\ log[2].ev = "err"

ConditionFailure ==
    log[2].items[1].kind = "ServiceError" /\ log[2].items[1].code = "ConditionalCheckFailedException"

\* C12: a condition-check rejection of an update or delete is raised as ConditionCheckFailed;
\* when the error payload holds the conflicting item, the raised error carries that item,
\* whatever return mode was requested; for any other code or a transport failure no item
\* is attached.
C12_ConflictingItemAttached ==
    ItemOpRejected
    => /\ ConditionFailure
          => /\ result.err.exc = "ConditionalCheckFailedException"
             /\ log[2].items[2].some => result.value # <<>>
       /\ ~ConditionFailure => result.value = <<>>

(* the host's == on two values: containers compare by content, a dict and a set whatever
   the order of their entries, a set and a frozenset alike *)
DictMap(v) ==
    IF "map" \in DOMAIN v THEN v.map
    ELSE [k \in {v.pairs[i][1] : i \in 1..Len(v.pairs)} |->
            v.pairs[CHOOSE i \in 1..Len(v.pairs) :
                       v.pairs[i][1] = k /\ \A j \in (i + 1)..Len(v.pairs) : v.pairs[j][1] # k][2]]

RECURSIVE PyEq(_, _)
PyEq(a, b) ==
    IF a.ty \in {"set", "frozenset"} /\ b.ty \in {"set", "frozenset"}
    THEN /\ \A i \in 1..Len(a.elems) : \E j \in 1..Len(b.elems) : ElemEq(a.elems[i], b.elems[j])
         /\ \A j \in 1..Len(b.elems) : \E i \in 1..Len(a.elems) : ElemEq(a.elems[i], b.elems[j])
    ELSE IF a.ty = "list" /\ b.ty = "list"
    THEN /\ Len(a.items) = Len(b.items)
         /\ \A i \in 1..Len(a.items) : PyEq(a.items[i], b.items[i])
    ELSE IF a.ty = "dict" /\ b.ty = "dict"
    THEN /\ DOMAIN DictMap(a) = DOMAIN DictMap(b)
         /\ \A k \in DOMAIN DictMap(a) : PyEq(DictMap(a)[k], DictMap(b)[k])
    ELSE IF a.ty \in {"list", "dict", "set", "frozenset", "object"} THEN FALSE
    ELSE ElemEq(a, b)

(* a supported native value: what the round-trip claim ranges over *)
AllOfType(elems, tys) == \A i \in 1..Len(elems) : elems[i].ty \in tys

RECURSIVE Supported(_)
Supported(v) ==
    CASE v.ty \in {"NoneType", "str", "bool", "int", "bytes"} -> TRUE
      [] v.ty = "float" -> (\E i \in 1..Len(PyStrOf(v)) : PyStrOf(v)[i] \in {".", "e", "E"})
      [] v.ty = "list" -> \A i \in 1..Len(v.items) : Supported(v.items[i])
      [] v.ty = "dict" -> \A i \in 1..Len(v.pairs) : Supported(v.pairs[i][2])
      [] v.ty \in {"set", "frozenset"} ->
           /\ v.elems # <<>>
           /\ \/ AllOfType(v.elems, {"str"})
              \/ AllOfType(v.elems, {"bytes"})
              \/ (AllOfType(v.elems, {"int", "float"})
                  /\ \A i \in 1..Len(v.elems) : Supported(v.elems[i]))
      [] OTHER -> FALSE

RoundTripDone == api = "codec" /\ pc = "done" /\ Len(log) = 1

\* C17: decode(encode(v)) == v for every supported native value v (strings, booleans, integers
\* of any magnitude, floats whose text has a '.', 'e' or 'E', none, byte sequences, lists,
\* string-keyed maps, non-empty homogeneous sets, nested): encoding succeeds, decoding the
\* result succeeds, and the decoded value equals v.
C17_RoundTrip ==
    (api = "codec" /\ pc = "done" /\ Supported(input))
    => /\ Len(log) = 1
       /\ result.status = "ok"
       /\ PyEq(result.value[1], input)

EncodeFailed == pc = "done" /\ log = <<>> /\ result.status = "err"
EncodedAs == log[1].items[1]

\* C18: encoding an empty set or frozenset fails; a non-empty set of strings only, of numbers
\* (integers / floats) only, or of byte sequences only encodes to StringSet, NumberSet or
\* BinarySet of its elements; a set whose elements are not all of one of these three kinds
\* fails, whichever element iteration yields first.
C18_SetEncoding ==
    (api = "codec" /\ input.ty \in {"set", "frozenset"})
    => IF input.elems = <<>> THEN EncodeFailed
       ELSE IF AllOfType(input.elems, {"str"})
       THEN Len(log) = 1 /\ EncodedAs = [t |-> "SS", ss |-> [i \in 1..Len(input.elems) |-> input.elems[i].v]]
       ELSE IF AllOfType(input.elems, {"int", "float"})
       THEN Len(log) = 1 /\ EncodedAs = [t |-> "NS", ns |-> [i \in 1..Len(input.elems) |-> PyStrOf(input.elems[i])]]
       ELSE IF AllOfType(input.elems, {"bytes"})
       THEN Len(log) = 1 /\ EncodedAs = [t |-> "BS", bs |-> [i \in 1..Len(input.elems) |-> input.elems[i].bytes]]
       ELSE EncodeFailed

RECURSIVE BoolsStayBoolean(_, _)
BoolsStayBoolean(v, av) ==
    CASE v.ty = "bool" -> av = AvBool(v.b)
      [] v.ty = "list" -> \A i \in 1..Len(v.items) : BoolsStayBoolean(v.items[i], av.l[i])
      [] v.ty = "dict" ->
           \A i \in 1..Len(v.pairs) : BoolsStayBoolean(DictMap(v)[v.pairs[i][1]], av.m[v.pairs[i][1]])
      [] v.ty \in {"set", "frozenset"} -> \A i \in 1..Len(v.elems) : v.elems[i].ty # "bool"
      [] OTHER -> TRUE

\* C19: a native boolean is never encoded as a Number or as an element of a NumberSet: in
\* every successful encoding a boolean at top level, in a list or in a map is the Boolean
\* variant, and no encoded set has a boolean among its elements.
C19_BooleanNeverNumber ==
    (api = "codec" /\ Len(log) = 1) => BoolsStayBoolean(input, EncodedAs)

(* ---------- C13 ---------- *)
PutGetRejected == pc = "done" /\ api \in {"put", "get"} /\ Len(log) = 2 /\ LastEv.ev = "err"

(* C13: a put or a get against table t that the backend rejects with code
   ResourceNotFoundException raises the ResourceNotFound error type, with a
   message that names t *)
C13_TableNotFound ==
    (PutGetRejected /\ LastEv.items[1].kind = "ServiceError"
       /\ LastEv.items[1].code = "ResourceNotFoundException")
    => /\ result.status = "err"
       /\ result.err.exc = "ResourceNotFoundException"
       /\ result.err.subject = table

(* ---------- C14 ---------- *)
ClassifiedApis == {"batch_write", "transact_write", "transact_get", "update", "delete"}
Rejected == pc = "done" /\ api \in ClassifiedApis /\ Len(log) > 0 /\ LastEv.ev = "err"
RawError == LastEv.items[1]
TransportKinds == {"DispatchFailure", "TimeoutError", "ConstructionFailure", "ResponseError"}
NamesCredentials(e) == e.kind = "ConstructionFailure" => e.detail \in CredentialTexts

\* C14 (as stated): a transport failure is classified by its structural kind, and the
\* category raised for one transport kind (dispatch failure, timeout, request-construction
\* failure naming credentials, malformed response) is raised for none of the other three.
C14_DistinctCategories ==
    (Rejected /\ RawError.kind \in TransportKinds /\ NamesCredentials(RawError))
    => /\ result.status = "err"
       /\ \A e \in TxErrors :
             (e.kind \in TransportKinds \ {RawError.kind} /\ NamesCredentials(e))
             => map_sdk_error(e, table).exc # result.err.exc

\* C14 (amended): a failure that is not a service error is classified by its structural
\* kind alone, whatever code its payload names: dispatch failure and timeout both raise
\* Connection, a request-construction failure raises Credentials when its text names
\* credentials and the generic error otherwise, a malformed response raises the generic error.
C14_StructuralKindFirst ==
    (Rejected /\ RawError.kind # "ServiceError")
    => /\ result.status = "err"
       /\ result.err.exc =
            CASE RawError.kind \in {"DispatchFailure", "TimeoutError"} -> "ConnectionException"
              [] RawError.kind = "ConstructionFailure" ->
                   IF RawError.detail \in CredentialTexts
                   THEN "CredentialsException" ELSE "PydynoxException"
              [] RawError.kind = "ResponseError" -> "PydynoxException"
              [] OTHER -> "none"

C14_Witness ==
    /\ Rejected /\ RawError.kind = "TimeoutError"
    /\ result.err.exc = "ConnectionException"

(* ---------- C15 ---------- *)
BackendRejected ==
    /\ pc = "done" /\ api \in ClassifiedApis \cup {"encrypt", "s3"}
    /\ Len(log) > 0 /\ LastEv.ev = "err"
    /\ RawError.kind = "ServiceError"

SharedCategory(code) ==
    CASE code \in CredentialCodes -> "CredentialsException"
      [] code \in AccessCodes -> "AccessDeniedException"
      [] code \in ThrottleCodes -> "ProvisionedThroughputExceededException"
      [] OTHER -> "none"

PublicApis == {"put", "get", "update", "delete", "batch_write", "transact_write", "transact_get"}
BackendCausedFailure ==
    /\ pc = "done" /\ api \in PublicApis /\ result.status = "err"
    /\ Len(log) > 0 /\ (LastEv.ev = "err" \/ Exhausted)

\* C16: a failure that a public operation raises because the backend answered with an
\* error, because the transport failed, or because batchWrite ran out of retries, is an
\* error of the closed taxonomy: the library's base exception or one of its subclasses,
\* never a host built-in.
C16_ClosedTaxonomy ==
    BackendCausedFailure => result.err.exc \in Taxonomy

(* ---------- C20 ---------- *)
BuiltFromMapping == api = "update" /\ Len(Calls(log)) = 1 /\ input.updates.some

\* C20: for a field mapping with n fields the submitted expression is the SET clause whose
\* i-th part is '#f{i} = :v{i}', in the mapping's iteration order and holding placeholders
\* only, never a field name; without caller-supplied maps the name map has exactly the n
\* entries #f{i} -> i-th field name and the value map exactly the n entries
\* :v{i} -> encoding of the i-th value.
C20_SetExpression ==
    BuiltFromMapping
    => LET u == input.updates.d
           n == Len(u)
           expr == Submitted.update_expression
       IN /\ expr.text = "SET" /\ Len(expr.parts) = n
          /\ \A i \in 1..n : expr.parts[i] = [name |-> <<"#f", i - 1>>, value |-> <<":v", i - 1>>]
          /\ ~input.names.some
             => /\ DOMAIN Submitted.expression_attribute_names = {<<"#f", i>> : i \in 0..(n - 1)}
                /\ \A i \in 1..n : Submitted.expression_attribute_names[<<"#f", i - 1>>] = u[i][1]
          /\ ~input.values.some
             => /\ DOMAIN Submitted.expression_attribute_values = {<<":v", i>> : i \in 0..(n - 1)}
                /\ \A i \in 1..n :
                      Submitted.expression_attribute_values[<<":v", i - 1>>]
                         = py_to_attribute_value_direct(u[i][2]).v

C20_Witness ==
    /\ BuiltFromMapping /\ Len(input.updates.d) = 3
    /\ ~input.names.some /\ ~input.values.some
    /\ Submitted.update_expression.parts[3] = [name |-> <<"#f", 2>>, value |-> <<":v", 2>>]
    /\ Submitted.expression_attribute_names[<<"#f", 0>>] = "size"
    /\ Submitted.expression_attribute_values[<<":v", 2>>] = AvBool(FALSE)

(* an element of put_items or delete_keys that converts: a dict whose values are of
   supported types *)
ItemConvertible(obj) == obj.ty = "dict" /\ Convertible(obj.pairs)
HasBadElement ==
    \/ api = "batch_write" /\ \E i \in 1..Len(input.items) : ~ItemConvertible(input.items[i])
    \/ TxApi /\ \E i \in 1..Len(input) : ~WellFormed(input[i])

\* C21: a batchWrite, transactWrite or transactGet whose input list holds an element that
\* fails local conversion or validation (not a mapping, a value of an unsupported type,
\* an empty set, a missing type / table / key / item / expression field, an unknown
\* operation type) ends in failure with a local error and without any backend call,
\* wherever in the list the element is.
C21_LocalFailureNoCall ==
    HasBadElement
    => /\ pc = "done" /\ log = <<>>
       /\ result.status = "err" /\ result.err.exc \in {"TypeError", "ValueError"}

C21_Witness ==
    /\ api = "batch_write" /\ pc = "done" /\ log = <<>> /\ result.status = "err"
    /\ Len(input.items) > 25
    /\ \A i \in 1..(Len(input.items) - 1) : ItemConvertible(input.items[i])
    /\ input.items[Len(input.items)] = PyDict(<< <<"id", PySet(<<>>)>> >>)

\* C22: whenever a batchWrite call, blocking or awaitable, is suspended in a backoff
\* delay, an unrelated operation of another thread on the same client can start (and,
\* once started, can complete while the delay lasts): the delay holds no interpreter lock.
C22_BackoffHoldsNoLock ==
    (api = "batch_write" /\ pc = "bw_sleep")
    => /\ other = "idle" => ENABLED OtherStart
       /\ other = "running" => ENABLED OtherFinish

\* C23: a successful UpdateItem or DeleteItem answer makes update and delete return the
\* consumed capacity of the answer, and the decoded attributes of the answer exactly when a
\* return mode other than NONE was asked (absent when the answer has none, absent always
\* when the mode is absent or NONE).
C23_Answered == api \in {"update", "delete"} /\ pc = "done" /\ Len(log) = 2 /\ log[2].ev = "ok"

C23_ReturnedAttributes ==
    C23_Answered
    => /\ result.status = "ok"
       /\ result.value[1].consumed_wcu = log[2].items[2]
       /\ result.value[1].attributes.some
            = (input.return_values \notin {NoText, "NONE"} /\ log[2].items[1].some)
       /\ result.value[1].attributes.some
            => attribute_values_to_py_dict(log[2].items[1].v)
                 = Converted(result.value[1].attributes.v)

\* C24: a call with an empty request list (batchWrite with no put and no delete,
\* transactWrite, transactGet), blocking or awaitable, has succeeded without any backend
\* call as soon as it is made; transactGet's result is the empty list.
C24_EmptyInput ==
    \/ api = "batch_write" /\ input.items = <<>>
    \/ api \in {"transact_write", "transact_get"} /\ input = <<>>

C24_EmptyIsNoOp ==
    (pc # "idle" /\ C24_EmptyInput)
    => /\ pc = "done" /\ log = <<>>
       /\ result = (IF api = "transact_get" THEN OkValue(<<>>) ELSE Ok)

C24_Witness ==
    /\ api = "transact_write" /\ form = "async" /\ input = <<>>
    /\ pc = "done" /\ log = <<>> /\ result = Ok

\* C25: batchWrite submits chunk c + 1 only after chunk c is cleared: the first call of a
\* chunk carries the whole chunk and directly follows the clearing response of the
\* previous chunk, every other call follows a backoff delay of its own chunk; the retry
\* counter is 0 and the first delay is 50ms * 2 again in every chunk; when the call has
\* failed, no chunk after the failing one was submitted.
C25_SequentialChunks ==
    api = "batch_write"
    => /\ \A j \in 1..Len(log) :
             log[j].ev = "call"
             => IF CallsBefore(j) = 0
                THEN /\ log[j].items = Chunk(all_requests, log[j].chunk)
                     /\ \/ j = 1 /\ log[j].chunk = 1
                        \/ /\ j > 1 /\ log[j - 1].ev = "ok" /\ log[j - 1].items = <<>>
                           /\ log[j - 1].chunk = log[j].chunk - 1
                ELSE log[j - 1].ev = "sleep" /\ log[j - 1].chunk = log[j].chunk
       /\ \A j \in 1..Len(log) :
             (log[j].ev = "sleep"
                /\ \A i \in 1..(j - 1) : ~(log[i].ev = "sleep" /\ log[i].chunk = log[j].chunk))
             => log[j].ms = 100
       /\ (pc = "bw_call" /\ CallsBefore(Len(log)) = 0) => retries = 0
       /\ (pc = "done" /\ result.status = "err" /\ log # <<>>)
          => \A j \in 1..Len(log) : log[j].chunk <= LastEv.chunk

C25_Witness ==
    \E i, j \in 1..Len(log) :
        /\ i < j /\ api = "batch_write"
        /\ log[i].ev = "sleep" /\ log[i].chunk = 1 /\ log[i].ms = 200
        /\ log[j].ev = "sleep" /\ log[j].chunk = 2 /\ log[j].ms = 100
        /\ pc = "done" /\ result.status = "err" /\ LastEv.ev = "err"

\* C26: when batchWrite has returned success, every request of the merged list is in at
\* least one backend call, the last response of every chunk reported no unprocessed request
\* for the table, and nothing is left pending.
C26_SuccessMeansAllProcessed ==
    (BatchDone /\ result.status = "ok")
    => /\ pending = <<>>
       /\ \A i \in 1..Len(all_requests) :
             \E j \in 1..Len(log) :
                /\ log[j].ev = "call"
                /\ \E k \in 1..Len(log[j].items) : log[j].items[k] = all_requests[i]
       /\ \A c \in 1..((Len(all_requests) + BATCH_WRITE_MAX_ITEMS - 1) \div BATCH_WRITE_MAX_ITEMS) :
             \E j \in 1..Len(log) :
                /\ log[j].chunk = c /\ log[j].ev = "ok" /\ log[j].items = <<>>
                /\ \A m \in (j + 1)..Len(log) : log[m].chunk # c

C26_Witness ==
    /\ BatchDone /\ result.status = "ok" /\ pending = <<>>
    /\ Len(all_requests) > BATCH_WRITE_MAX_ITEMS
    /\ \E i, j \in 1..Len(log) :
          /\ log[i].ev = "sleep" /\ log[i].chunk = 1
          /\ log[j].ev = "sleep" /\ log[j].chunk = 2 /\ log[j].ms = 200

\* C27: whatever the backend answers, no chunk of a batchWrite is sent more than
\* BATCH_MAX_RETRIES times, the calls of a batchWrite never exceed BATCH_MAX_RETRIES times
\* the number of chunks, and every batchWrite that was started returns.
C27_CallsBounded ==
    api = "batch_write"
    => /\ \A c \in 1..chunkIdx : Len(CallsOfChunk(c)) <= BATCH_MAX_RETRIES
       /\ Len(Calls(log))
            <= BATCH_MAX_RETRIES
                 * ((Len(all_requests) + BATCH_WRITE_MAX_ITEMS - 1) \div BATCH_WRITE_MAX_ITEMS)

C27_Terminates == []C27_CallsBounded /\ ((api = "batch_write") ~> (pc = "done"))

C27_Witness ==
    /\ BatchDone /\ result.status = "err" /\ log # <<>> /\ LastEv.ev = "sleep"
    /\ chunkIdx = 2
    /\ Len(CallsOfChunk(1)) = BATCH_MAX_RETRIES /\ Len(CallsOfChunk(2)) = BATCH_MAX_RETRIES

\* C28: a finished batchWrite ends as the other form ends on the same inputs and the same
\* backend answers (the two forms differ only in the error built when the retries of a
\* chunk are exhausted): both succeed, or both fail with an error of the same type that
\* carries the same count of remaining requests.
C28_OtherFormResult ==
    IF Exhausted
    THEN Err(ExhaustedError(IF form = "sync" THEN "async" ELSE "sync", pending, table))
    ELSE result

C28_FormsAgree ==
    BatchDone
    => /\ C28_OtherFormResult.status = result.status
       /\ C28_OtherFormResult.err.exc = result.err.exc
       /\ Exhausted => C28_OtherFormResult.err.args = result.err.args

\* C29: in a finished batchWrite every backoff delay is directly followed by a call that
\* resubmits the pending requests of the same chunk, so the delays of a chunk are as many
\* as its resubmissions (its calls after the first).
C29_DelayThenResubmission ==
    BatchDone
    => /\ \A j \in 1..Len(log) :
             log[j].ev = "sleep"
             => /\ j < Len(log)
                /\ log[j + 1].ev = "call" /\ log[j + 1].chunk = log[j].chunk
       /\ \A c \in 1..chunkIdx :
             Cardinality({j \in 1..Len(log) : log[j].ev = "sleep" /\ log[j].chunk = c})
                = Len(CallsOfChunk(c)) - 1

\* C30: the expression of a submitted UpdateItem is the SET clause compiled from the field
\* mapping whenever a mapping is given, also when a raw expression is given with it (the
\* raw expression is then not submitted); with no mapping it is the raw expression as
\* given, and the name and value maps hold the caller's entries only.
C30_MappingWins ==
    (api = "update" /\ Len(Calls(log)) = 1)
    => IF input.updates.some
       THEN /\ Submitted.update_expression
                 = SetExpression([i \in 1..Len(input.updates.d) |->
                                    [name |-> <<"#f", i - 1>>, value |-> <<":v", i - 1>>]])
            /\ Submitted.update_expression # RawExpression(input.update_expression)
       ELSE /\ Submitted.update_expression = RawExpression(input.update_expression)
            /\ Submitted.expression_attribute_names
                 = (IF input.names.some THEN FromPairs(input.names.d) ELSE EmptyMap)
            /\ DOMAIN Submitted.expression_attribute_values
                 = (IF input.values.some
                    THEN {input.values.d[i][1] : i \in 1..Len(input.values.d)} ELSE {})

C30_Witness ==
    /\ api = "update" /\ Len(Calls(log)) = 1
    /\ input.updates.some /\ Len(input.updates.d) = 2
    /\ input.update_expression = "SET #n0 = :x0"
    /\ Submitted.update_expression.text = "SET" /\ Len(Submitted.update_expression.parts) = 2

====
